---------------------------- MODULE Spec2Model ----------------------------
(***************************************************************************)
(* Token lifecycle of the Cloak / ConfidentialConnect Slack bot: the       *)
(* SQLite token store (send_tokens, view_tokens), the Express handlers     *)
(* that consume the tokens, the Slack handlers that issue and revoke view  *)
(* tokens, and the per-secret expiration timer.                            *)
(*                                                                         *)
(* The bot is one Node.js process.  A handler runs without interruption    *)
(* from one `await` to the next, so every action below is the synchronous  *)
(* run of one handler between two awaits; handlers suspended at an await   *)
(* are kept in the bag `inflight`.  A call to the Canton ledger takes      *)
(* effect at the ledger in one step and its result reaches the handler in  *)
(* a later step, so other handlers may run in between; where the code      *)
(* before the call changes no local state, the call and its effect at the  *)
(* ledger are one step.                                                    *)
(*                                                                         *)
(* Time is in milliseconds, as Date.now() gives it.  Timestamps are kept   *)
(* as numbers: the code stores them as Date.toISOString() text, whose      *)
(* string order is the order of the instants.                              *)
(*                                                                         *)
(* crypto.randomBytes(32) is modelled as drawing a value that was never    *)
(* drawn before: tokens are numbered in the order they are issued.         *)
(***************************************************************************)
EXTENDS Integers, Sequences, FiniteSets, Bags, TLC

VARIABLES
    ticks,       \* clock: number of steps it has taken
    sendTokens,  \* table send_tokens: token -> row
    viewTokens,  \* table view_tokens: token -> row
    nextSend,    \* the next send token crypto.randomBytes yields
    nextView,    \* the next view token crypto.randomBytes yields
    ledger,      \* SecretTransfer contracts at the ledger: contractId -> contract
    tracked,     \* secret-timers.ts `tracked` map: contractId -> entry
    inflight,    \* bag of handlers suspended at an await
    resp,        \* the last HTTP response sent, with the request it answers
    sendOk,      \* per send token: consumeSendToken calls that returned the record
    viewOk,      \* per view token: consumeViewToken calls that returned the record
    writes,      \* per send token: createContract invocations
    jwts,        \* per view token: viewer JWTs minted
    acked,       \* contracts whose acknowledgement archived them and revoked their tokens
    exercised,   \* the exerciseChoice requests sent to the ledger
    canton,      \* the ledger behind services/canton.ts: its contracts and its end offset
    lastCall,    \* the last call of a services/canton.ts operation: reply and outcome
    intervals,   \* bag of the live setInterval timers of secret-timers.ts
    detached     \* entries deleted from `tracked` that a suspended tick() still holds

vars == <<ticks, sendTokens, viewTokens, nextSend, nextView, ledger,
          tracked, inflight, resp, sendOk, viewOk, writes, jwts, acked,
          exercised, canton, lastCall, intervals, detached>>

---------------------------------------------------------------------------
(* Bounds of the model *)

FineTicks == 1
MaxTicks == 2
MaxSend == 1
MaxView == 2
MaxContracts == 2
MaxInflight == 2
MaxRevokes == 3
MaxCanton == 2
MaxEvents == 2
CountCap == 2

---------------------------------------------------------------------------
(* Constants of the program *)

\* SQL NULL / JavaScript null in a column or variable that otherwise holds an
\* instant (instants are >= 0).
NULL == -1

SEND_TOKEN_TTL_MS == 10 * 60 * 1000

RETENTION_MS == 24 * 60 * 60 * 1000

\* The model's clock takes FineTicks steps of TICK_MS (half the send-token
\* TTL, and the shortest but one `ttl` of the compose page), and from then on
\* steps of RETENTION_MS (the age at which purgeExpiredTokens deletes).
TICK_MS == 5 * 60 * 1000

\* The instants one second before, at and one second after the expiry of a
\* send token issued at instant 0.
EdgeInstants ==
    << SEND_TOKEN_TTL_MS - 1000, SEND_TOKEN_TTL_MS, SEND_TOKEN_TTL_MS + 1000 >>

\* refreshInterval: the thresholds on the remaining time.
FIVE_MINUTES_MS == 5 * 60000
ONE_HOUR_MS == 60 * 60000
ONE_DAY_MS == 24 * 60 * 60000

\* refreshInterval: the cadences.
EVERY_30S == 30000
EVERY_60S == 60000
EVERY_5MIN == 5 * 60000
EVERY_30MIN == 30 * 60000

\* Instants in the life of a secret tracked at instant 0 with a TTL of two
\* hours (and of one tracked with a TTL of five minutes): five minutes in, 55
\* minutes before the expiry, 4 minutes before it, and the expiry.
CadenceInstants ==
    << FIVE_MINUTES_MS, 65 * 60000, 116 * 60000, 120 * 60000 >>

\* The instant of clock value i: the values up to MaxTicks are the steps
\* described above, the values after MaxTicks are the EdgeInstants and, after
\* them, the CadenceInstants.
ClockAt(i) ==
    IF i > MaxTicks + Len(EdgeInstants)
    THEN CadenceInstants[i - MaxTicks - Len(EdgeInstants)]
    ELSE IF i > MaxTicks THEN EdgeInstants[i - MaxTicks]
    ELSE IF i <= FineTicks THEN i * TICK_MS
    ELSE FineTicks * TICK_MS + (i - FineTicks) * RETENTION_MS

\* Date.now()
Now == ClockAt(ticks)

\* A path parameter that TOKEN_REGEX = /^[a-f0-9]{64}$/ rejects.  The paths it
\* accepts are the numbers from 1, issued or not.
Malformed == 0

TOKEN_REGEX_test(token) == token # Malformed

SendPaths == 0 .. MaxSend
ViewPaths == 0 .. MaxView

\* The User-Agent header as a sequence of pieces; <<>> is the absent header,
\* which the handler reads as ''.
BrowserUA == <<"Mozilla/5.0">>
SlackbotUA == <<"Slackbot", "-LinkExpanding 1.0">>
NoUA == << >>
UserAgents == { BrowserUA, SlackbotUA, NoUA }

\* A check that takes no request for the preview agent.
IsSlackbot_Never(ua) == FALSE

\* ua.includes('Slackbot')
IsSlackbot(ua) == \E i \in 1 .. Len(ua) : ua[i] = "Slackbot"

\* The `ttl` field of the POST body: the value of the compose page's
\* <select id="ttl-input">.
TtlInputs == { "none", "30", "300" }

\* Number(ttl)
NumberOf(ttl) ==
    CASE ttl = "30" -> 30
      [] ttl = "300" -> 300
      [] ttl = "3600" -> 3600
      [] ttl = "7200" -> 7200
      [] ttl = "86400" -> 86400
      [] ttl = "604800" -> 604800

Inc(n) == IF n < CountCap THEN n + 1 ELSE n

---------------------------------------------------------------------------
(* send-tokens.ts *)

\* createSendToken with a TTL of an hour.
createSendToken_Hour(now) ==
    [ created_at |-> now,
      expires_at |-> now + 6 * SEND_TOKEN_TTL_MS,
      consumed_at |-> NULL ]

\* createSendToken: the row it inserts.
createSendToken(now) ==
    [ created_at |-> now,
      expires_at |-> now + SEND_TOKEN_TTL_MS,
      consumed_at |-> NULL ]

\* SELECT * FROM send_tokens WHERE token = ? AND consumed_at IS NULL
SelectSendToken(db, token) ==
    token \in DOMAIN db /\ db[token].consumed_at = NULL

\* new Date(row.expires_at) < new Date()
SendTokenExpired(row, now) == row.expires_at < now

\* What a lookup returns: null, or the record.
None == {}
Some(row) == {row}

\* getSendTokenInfo without its expiry check.
getSendTokenInfo_NoExpiry(db, token, now) ==
    IF ~SelectSendToken(db, token) THEN None ELSE Some(db[token])

\* getSendTokenInfo: the record, or null.
getSendTokenInfo(db, token, now) ==
    IF ~SelectSendToken(db, token) THEN None
    ELSE IF SendTokenExpired(db[token], now) THEN None
    ELSE Some(db[token])

\* consumeSendToken without its UPDATE.
consumeSendToken_NoUpdate(db, token, now) ==
    IF ~SelectSendToken(db, token) THEN [ ret |-> None, db |-> db ]
    ELSE IF SendTokenExpired(db[token], now) THEN [ ret |-> None, db |-> db ]
    ELSE [ ret |-> Some(db[token]), db |-> db ]

\* consumeSendToken: what it returns (ret) and the table it leaves (db).
consumeSendToken(db, token, now) ==
    IF ~SelectSendToken(db, token) THEN [ ret |-> None, db |-> db ]
    ELSE IF SendTokenExpired(db[token], now) THEN [ ret |-> None, db |-> db ]
    ELSE [ ret |-> Some(db[token]),
           db  |-> [ db EXCEPT ![token].consumed_at = now ] ]

---------------------------------------------------------------------------
(* view-tokens.ts *)

\* createViewToken: the row it inserts.
createViewToken(contractId, secretExpiresAt, now) ==
    [ contract_id |-> contractId,
      created_at  |-> now,
      expires_at  |-> secretExpiresAt,
      consumed_at |-> NULL,
      revoked     |-> 0 ]

\* The SELECT of consumeViewToken without "AND revoked = 0".
SelectViewToken_IgnoreRevoked(db, token) ==
    /\ token \in DOMAIN db
    /\ db[token].consumed_at = NULL

\* SELECT * FROM view_tokens WHERE token = ? AND consumed_at IS NULL AND revoked = 0
SelectViewToken(db, token) ==
    /\ token \in DOMAIN db
    /\ db[token].consumed_at = NULL
    /\ db[token].revoked = 0

\* A check that never finds a row expired.
ViewTokenExpired_Never(row, now) == FALSE

\* row.expires_at && new Date(row.expires_at) < new Date()
ViewTokenExpired(row, now) ==
    row.expires_at # NULL /\ row.expires_at < now

\* consumeViewToken without its UPDATE.
consumeViewToken_NoUpdate(db, token, now) ==
    IF ~SelectViewToken(db, token) THEN [ ret |-> None, db |-> db ]
    ELSE IF ViewTokenExpired(db[token], now) THEN [ ret |-> None, db |-> db ]
    ELSE [ ret |-> Some(db[token]), db |-> db ]

\* consumeViewToken: what it returns (ret) and the table it leaves (db).
consumeViewToken(db, token, now) ==
    IF ~SelectViewToken(db, token) THEN [ ret |-> None, db |-> db ]
    ELSE IF ViewTokenExpired(db[token], now) THEN [ ret |-> None, db |-> db ]
    ELSE [ ret |-> Some(db[token]),
           db  |-> [ db EXCEPT ![token].consumed_at = now ] ]

\* The UPDATE flipping the flag of every unconsumed row of the contract.
revokeTokensForContract_Toggle(db, contractId) ==
    [ t \in DOMAIN db |->
        IF db[t].contract_id = contractId /\ db[t].consumed_at = NULL
        THEN [ db[t] EXCEPT !.revoked = 1 - @ ]
        ELSE db[t] ]

\* The UPDATE without "AND consumed_at IS NULL".
revokeTokensForContract_AnyRow(db, contractId) ==
    [ t \in DOMAIN db |->
        IF db[t].contract_id = contractId /\ db[t].revoked = 0
        THEN [ db[t] EXCEPT !.revoked = 1 ]
        ELSE db[t] ]

\* The UPDATE applied to the first matching row only.
revokeTokensForContract_FirstRow(db, contractId) ==
    LET match == { t \in DOMAIN db : /\ db[t].contract_id = contractId
                                     /\ db[t].consumed_at = NULL
                                     /\ db[t].revoked = 0 }
    IN  [ t \in DOMAIN db |->
            IF t \in match /\ \A u \in match : t <= u
            THEN [ db[t] EXCEPT !.revoked = 1 ]
            ELSE db[t] ]

\* The UPDATE with "WHERE contract_id = ?" alone.
revokeTokensForContract_AllOfContract(db, contractId) ==
    [ t \in DOMAIN db |->
        IF db[t].contract_id = contractId
        THEN [ db[t] EXCEPT !.revoked = 1 ]
        ELSE db[t] ]

\* The UPDATE without "contract_id = ?".
revokeTokensForContract_EveryContract(db, contractId) ==
    [ t \in DOMAIN db |->
        IF db[t].consumed_at = NULL /\ db[t].revoked = 0
        THEN [ db[t] EXCEPT !.revoked = 1 ]
        ELSE db[t] ]

\* UPDATE view_tokens SET revoked = 1
\*   WHERE contract_id = ? AND consumed_at IS NULL AND revoked = 0
revokeTokensForContract(db, contractId) ==
    [ t \in DOMAIN db |->
        IF /\ db[t].contract_id = contractId
           /\ db[t].consumed_at = NULL
           /\ db[t].revoked = 0
        THEN [ db[t] EXCEPT !.revoked = 1 ]
        ELSE db[t] ]

\* A DELETE of every row created before the cutoff.
PurgeMatches_ByAge(row, cutoff) == row.created_at < cutoff

\* The WHERE clause of purgeExpiredTokens' DELETE.
PurgeMatches(row, cutoff) ==
    \/ row.consumed_at # NULL /\ row.consumed_at < cutoff
    \/ row.revoked = 1 /\ row.created_at < cutoff
    \/ row.expires_at # NULL /\ row.expires_at < cutoff

purgeExpiredTokens(db, now) ==
    LET cutoff == now - RETENTION_MS
        kept == { t \in DOMAIN db : ~PurgeMatches(db[t], cutoff) }
    IN  [ t \in kept |-> db[t] ]

---------------------------------------------------------------------------
(* State *)

NoResp == [ h |-> "none", tok |-> Malformed, status |-> 0 ]

\* The ledger before any contract: no contract, ledger end at offset 0.
NoContracts == [ contracts |-> << >>, end |-> 0 ]

\* No operation of services/canton.ts was called yet.
NoCall ==
    [ op |-> "none", gen |-> "v1", pc |-> "done", args |-> NULL, net |-> "ok",
      reply |-> NULL, outcome |-> [ kind |-> "ok", value |-> NULL ] ]

\* An HTTP response: the route (h), the :token of the request it answers and
\* the status code.
Response(h, tok, status) == [ h |-> h, tok |-> tok, status |-> status ]

Init ==
    /\ ticks = 0
    /\ sendTokens = << >>
    /\ viewTokens = << >>
    /\ nextSend = 1
    /\ nextView = 1
    /\ ledger = << >>
    /\ tracked = << >>
    /\ inflight = EmptyBag
    /\ resp = NoResp
    /\ sendOk = [ t \in 1 .. MaxSend |-> 0 ]
    /\ viewOk = [ t \in 1 .. MaxView |-> 0 ]
    /\ writes = [ t \in 1 .. MaxSend |-> 0 ]
    /\ jwts = [ t \in 1 .. MaxView |-> 0 ]
    /\ acked = {}
    /\ exercised = {}
    /\ canton = NoContracts
    /\ lastCall = NoCall
    /\ intervals = EmptyBag
    /\ detached = << >>

Suspend(rec) == inflight (+) SetToBag({rec})
Resume(rec) == inflight (-) SetToBag({rec})
Suspended == BagToSet(inflight)
CanSuspend == BagCardinality(inflight) < MaxInflight

---------------------------------------------------------------------------
(* The clock *)

AdvanceClock ==
    /\ ticks < MaxTicks
    /\ ticks' = ticks + 1
    /\ UNCHANGED <<sendTokens, viewTokens, nextSend, nextView, ledger,
                   tracked, inflight, resp, sendOk, viewOk, writes, jwts, acked,
                   exercised,
                   canton, lastCall, intervals, detached>>

\* Time passes up to one of the instants around a send token's expiry.
AdvanceToEdge ==
    \E k \in 1 .. Len(EdgeInstants) :
        /\ EdgeInstants[k] > Now
        /\ ticks' = MaxTicks + k
        /\ UNCHANGED <<sendTokens, viewTokens, nextSend, nextView, ledger,
                       tracked, inflight, resp, sendOk, viewOk, writes, jwts,
                       acked, exercised,
                       canton, lastCall, intervals, detached>>

---------------------------------------------------------------------------
(* /cc-send: issues a send token *)

CcSend ==
    /\ nextSend <= MaxSend
    /\ sendTokens' = (nextSend :> createSendToken(Now)) @@ sendTokens
    /\ nextSend' = nextSend + 1
    /\ UNCHANGED <<ticks, viewTokens, nextView, ledger, tracked,
                   inflight, resp, sendOk, viewOk, writes, jwts, acked,
                   exercised,
                   canton, lastCall, intervals, detached>>


---------------------------------------------------------------------------
(* web/server.ts: GET /compose/:token *)

\* The response of GET /compose/:token.
ComposeHandler(db, token, now) ==
    IF ~TOKEN_REGEX_test(token)
    THEN [ status |-> 400, page |-> "Invalid Link" ]
    ELSE IF getSendTokenInfo(db, token, now) = None
         THEN [ status |-> 410, page |-> "Link Expired or Invalid" ]
         ELSE [ status |-> 200, page |-> "compose" ]

GetComposeReq(token) ==
        LET r == ComposeHandler(sendTokens, token, Now)
        IN  /\ resp' = Response("compose", token, r.status)
            /\ UNCHANGED <<ticks, sendTokens, viewTokens, nextSend,
                           nextView, ledger, tracked, inflight, sendOk, viewOk,
                           writes, jwts, acked, exercised,
                           canton, lastCall, intervals, detached>>

GetCompose == \E token \in SendPaths : GetComposeReq(token)

---------------------------------------------------------------------------
(* web/server.ts: POST /api/send/:token *)

\* ttl && ttl !== 'none' ? new Date(sentAt.getTime() + Number(ttl) * 1000) : null
ExpiresAtOf(ttl, sentAt) ==
    IF ttl # "none" THEN sentAt + NumberOf(ttl) * 1000 ELSE NULL

\* The handler reading the body before it consumes the token.
PostSendSync_ValidateFirst(db, token, hasCiphertext, ttl, now) ==
    IF ~TOKEN_REGEX_test(token) \/ ~hasCiphertext
    THEN [ status |-> 400, db |-> db, consumed |-> FALSE, call |-> FALSE,
           expiresAt |-> NULL ]
    ELSE LET c == consumeSendToken(db, token, now)
         IN  IF c.ret = None
             THEN [ status |-> 410, db |-> c.db, consumed |-> FALSE,
                    call |-> FALSE, expiresAt |-> NULL ]
             ELSE [ status |-> 0, db |-> c.db, consumed |-> TRUE,
                    call |-> TRUE, expiresAt |-> ExpiresAtOf(ttl, now) ]

\* The handler up to its first await: the response it sends (status 0: none
\* yet), the table it leaves, whether consumeSendToken returned the record and
\* whether createContract was invoked.
PostSendSync(db, token, hasCiphertext, ttl, now) ==
    IF ~TOKEN_REGEX_test(token)
    THEN [ status |-> 400, db |-> db, consumed |-> FALSE, call |-> FALSE,
           expiresAt |-> NULL ]
    ELSE LET c == consumeSendToken(db, token, now)
         IN  IF c.ret = None
             THEN [ status |-> 410, db |-> c.db, consumed |-> FALSE,
                    call |-> FALSE, expiresAt |-> NULL ]
             ELSE IF ~hasCiphertext
             THEN [ status |-> 400, db |-> c.db, consumed |-> TRUE,
                    call |-> FALSE, expiresAt |-> NULL ]
             ELSE [ status |-> 0, db |-> c.db, consumed |-> TRUE,
                    call |-> TRUE, expiresAt |-> ExpiresAtOf(ttl, now) ]

\* A suspended handler: which handler (h), the await it is at (pc), and its
\* local variables.
Handler(h, pc, tok, cid, exp, active, todo) ==
    [ h |-> h, pc |-> pc, tok |-> tok, cid |-> cid, exp |-> exp,
      active |-> active, todo |-> todo ]

PostSendReq(token, hasCiphertext, ttl) ==
        LET r == PostSendSync(sendTokens, token, hasCiphertext, ttl, Now)
        IN  /\ r.call => CanSuspend
            /\ sendTokens' = r.db
            /\ sendOk' = IF r.consumed
                         THEN [ sendOk EXCEPT ![token] = Inc(@) ] ELSE sendOk
            /\ writes' = IF r.call
                         THEN [ writes EXCEPT ![token] = Inc(@) ] ELSE writes
            /\ inflight' = IF r.call
                           THEN Suspend(Handler("send", "createContract", token,
                                                0, r.expiresAt, {}, {}))
                           ELSE inflight
            /\ resp' = IF r.call THEN resp
                       ELSE Response("send", token, r.status)
            /\ UNCHANGED <<ticks, viewTokens, nextSend, nextView, ledger,
                           tracked, viewOk, jwts, acked, exercised,
                           canton, lastCall, intervals, detached>>

PostSend ==
    \E token \in SendPaths, hasCiphertext \in BOOLEAN, ttl \in TtlInputs :
        PostSendReq(token, hasCiphertext, ttl)

\* The ledger assigns the contract id.
NewContractId == Cardinality(DOMAIN ledger) + 1

\* createContract takes effect at the ledger.
PostSendCreated ==
    \E h \in Suspended :
        /\ h.h = "send" /\ h.pc = "createContract"
        /\ ledger' = (NewContractId :> [ expiresAt |-> h.exp, active |-> TRUE ])
                        @@ ledger
        /\ inflight' = Resume(h) (+)
                SetToBag({ [ h EXCEPT !.pc = "created", !.cid = NewContractId ] })
        /\ UNCHANGED <<ticks, sendTokens, viewTokens, nextSend, nextView,
                       tracked, resp, sendOk, viewOk, writes, jwts, acked,
                       exercised,
                       canton, lastCall, intervals, detached>>

\* The catch handing the send token back for a retry.
PostSendFailed_Rollback ==
    \E h \in Suspended :
        /\ h.h = "send" /\ h.pc = "createContract"
        /\ inflight' = Resume(h)
        /\ sendTokens' = [ sendTokens EXCEPT ![h.tok].consumed_at = NULL ]
        /\ resp' = Response("send", h.tok, 500)
        /\ UNCHANGED <<ticks, viewTokens, nextSend, nextView, ledger, tracked,
                       sendOk, viewOk, writes, jwts, acked, exercised,
                       canton, lastCall, intervals, detached>>

\* createContract throws (the ledger rejected the write, or was unreachable):
\* the handler's catch answers 500.
PostSendFailed ==
    \E h \in Suspended :
        /\ h.h = "send" /\ h.pc = "createContract"
        /\ inflight' = Resume(h)
        /\ resp' = Response("send", h.tok, 500)
        /\ UNCHANGED <<ticks, sendTokens, viewTokens, nextSend, nextView,
                       ledger, tracked, sendOk, viewOk, writes, jwts, acked,
                       exercised,
                       canton, lastCall, intervals, detached>>

\* createContract returned: the handler issues the view token and awaits
\* chat.postMessage.
PostSendIssue ==
    \E h \in Suspended :
        /\ h.h = "send" /\ h.pc = "created"
        /\ nextView <= MaxView
        /\ viewTokens' = (nextView :> createViewToken(h.cid, h.exp, Now))
                            @@ viewTokens
        /\ nextView' = nextView + 1
        /\ inflight' = Resume(h) (+)
                SetToBag({ [ h EXCEPT !.pc = "postMessage" ] })
        /\ UNCHANGED <<ticks, sendTokens, nextSend, ledger, tracked,
                       resp, sendOk, viewOk, writes, jwts, acked, exercised,
                       canton, lastCall, intervals, detached>>

\* A live interval: the delivery whose tick() it calls and its period.
Interval(cid, period) == [ cid |-> cid, period |-> period ]

\* setInterval(() => tick(cid), period)
setInterval(live, cid, period) == live (+) SetToBag({ Interval(cid, period) })

\* if (timerId) clearInterval(timerId); clearing an interval that was cleared
\* before does nothing.
clearInterval(live, cid, timerId) ==
    IF timerId = NULL THEN live
    ELSE live (-) SetToBag({ Interval(cid, timerId) })

\* An entry deleted from the map stays alive as the `entry` of the tick()
\* calls that read it before and are suspended: map is the `tracked` map
\* before the deletion, held the entries held so far.
Detach(held, map, cid) ==
    IF cid \in DOMAIN map THEN (cid :> map[cid]) @@ held ELSE held

\* The deleted entries that some suspended tick() of `handlers` still holds.
Held(handlers, held) ==
    [ c \in { d \in DOMAIN held :
                 \E h \in BagToSet(handlers) : h.h = "tick" /\ h.cid = d } |->
        held[c] ]

\* refreshInterval(expiresAt)
refreshInterval(expiresAt, now) ==
    LET remaining == expiresAt - now
    IN  IF remaining <= FIVE_MINUTES_MS THEN EVERY_30S
        ELSE IF remaining <= ONE_HOUR_MS THEN EVERY_60S
        ELSE IF remaining <= ONE_DAY_MS THEN EVERY_5MIN
        ELSE EVERY_30MIN

\* trackSecret starting an interval for every secret.
trackSecret_AlwaysTimer(expiresAt, now) ==
    [ expiresAt |-> expiresAt,
      timerId |-> IF expiresAt # NULL THEN refreshInterval(expiresAt, now)
                  ELSE EVERY_30MIN ]

\* trackSecret: the entry it sets.  timerId is the period of the interval it
\* started, NULL when it started none.
trackSecret(expiresAt, now) ==
    [ expiresAt |-> expiresAt,
      timerId |-> IF expiresAt # NULL THEN refreshInterval(expiresAt, now)
                  ELSE NULL ]

\* The handler without the try/catch around chat.postMessage: a failed
\* notification revokes the view token and is answered 500.
PostSendNotified_Strict ==
    \E h \in Suspended, delivered \in BOOLEAN :
        /\ h.h = "send" /\ h.pc = "postMessage"
        /\ tracked' = IF delivered
                      THEN [ c \in DOMAIN tracked \cup {h.cid} |->
                                IF c = h.cid THEN trackSecret(h.exp, Now)
                                ELSE tracked[c] ]
                      ELSE tracked
        /\ intervals' = IF delivered /\ trackSecret(h.exp, Now).timerId # NULL
                        THEN setInterval(intervals, h.cid,
                                         trackSecret(h.exp, Now).timerId)
                        ELSE intervals
        /\ detached' = detached
        /\ viewTokens' = IF delivered THEN viewTokens
                         ELSE revokeTokensForContract(viewTokens, h.cid)
        /\ inflight' = Resume(h)
        /\ resp' = Response("send", h.tok, IF delivered THEN 200 ELSE 500)
        /\ UNCHANGED <<ticks, sendTokens, nextSend, nextView, ledger, sendOk,
                       viewOk, writes, jwts, acked, exercised,
                       canton, lastCall>>

\* chat.postMessage returned (delivered: with result.ts and result.channel) or
\* threw: the handler tracks the secret in the first case and answers
\* { ok: true } in both.
PostSendNotified ==
    \E h \in Suspended, delivered \in BOOLEAN :
        /\ h.h = "send" /\ h.pc = "postMessage"
        /\ tracked' = IF delivered
                      THEN [ c \in DOMAIN tracked \cup {h.cid} |->
                                IF c = h.cid THEN trackSecret(h.exp, Now)
                                ELSE tracked[c] ]
                      ELSE tracked
        /\ intervals' = IF delivered /\ trackSecret(h.exp, Now).timerId # NULL
                        THEN setInterval(intervals, h.cid,
                                         trackSecret(h.exp, Now).timerId)
                        ELSE intervals
        /\ detached' = detached
        /\ inflight' = Resume(h)
        /\ resp' = Response("send", h.tok, 200)
        /\ UNCHANGED <<ticks, sendTokens, viewTokens, nextSend, nextView,
                       ledger, sendOk, viewOk, writes, jwts, acked,
                       exercised,
                       canton, lastCall>>

---------------------------------------------------------------------------
(* web/server.ts: GET /secret/:token *)

\* getPackageId(): index.ts awaits discoverPackageId(), which sets packageId
\* or throws, before it starts the web server.
getPackageId == "pkg"

\* The handler minting the credential whatever consumeViewToken returned.
SecretHandler_MintAlways(db, token, ua, now) ==
    IF ~TOKEN_REGEX_test(token)
    THEN [ status |-> 400, page |-> "Invalid Link", db |-> db, ok |-> FALSE,
           jwt |-> FALSE ]
    ELSE IF IsSlackbot(ua)
    THEN [ status |-> 200, page |-> "unfurl", db |-> db, ok |-> FALSE,
           jwt |-> FALSE ]
    ELSE LET c == consumeViewToken(db, token, now)
         IN  [ status |-> 302, page |-> "viewer", db |-> c.db,
               ok |-> c.ret # None, jwt |-> TRUE ]

\* The handler telling a token that was never issued from a spent one.
SecretHandler_NotFound(db, token, ua, now) ==
    IF ~TOKEN_REGEX_test(token)
    THEN [ status |-> 400, page |-> "Invalid Link", db |-> db, ok |-> FALSE,
           jwt |-> FALSE ]
    ELSE IF IsSlackbot(ua)
    THEN [ status |-> 200, page |-> "unfurl", db |-> db, ok |-> FALSE,
           jwt |-> FALSE ]
    ELSE IF token \notin DOMAIN db
    THEN [ status |-> 404, page |-> "Secret Not Found", db |-> db,
           ok |-> FALSE, jwt |-> FALSE ]
    ELSE LET c == consumeViewToken(db, token, now)
         IN  IF c.ret = None
             THEN [ status |-> 410, page |-> "Link Expired or Already Used",
                    db |-> c.db, ok |-> FALSE, jwt |-> FALSE ]
             ELSE [ status |-> 302, page |-> "viewer", db |-> c.db, ok |-> TRUE,
                    jwt |-> TRUE ]

\* The handler: the response, the table it leaves, whether consumeViewToken
\* returned the record (ok) and whether generateViewerJwt was called (jwt).
SecretHandler(db, token, ua, now) ==
    IF ~TOKEN_REGEX_test(token)
    THEN [ status |-> 400, page |-> "Invalid Link", db |-> db, ok |-> FALSE,
           jwt |-> FALSE ]
    ELSE IF IsSlackbot(ua)
    THEN [ status |-> 200, page |-> "unfurl", db |-> db, ok |-> FALSE,
           jwt |-> FALSE ]
    ELSE LET c == consumeViewToken(db, token, now)
         IN  IF c.ret = None
             THEN [ status |-> 410, page |-> "Link Expired or Already Used",
                    db |-> c.db, ok |-> FALSE,
                    jwt |-> FALSE ]
             ELSE IF getPackageId = ""
             THEN [ status |-> 500, page |-> "Server Error", db |-> c.db,
                    ok |-> TRUE,
                    jwt |-> FALSE ]
             ELSE [ status |-> 302, page |-> "viewer", db |-> c.db, ok |-> TRUE,
                    jwt |-> TRUE ]

\* The handler taking a consumed view token for an acknowledgement: it
\* deletes the secret from the tracking map.
GetSecretReq_Untrack(token, ua) ==
        LET r == SecretHandler(viewTokens, token, ua, Now)
        IN  /\ viewTokens' = r.db
            /\ viewOk' = IF r.ok THEN [ viewOk EXCEPT ![token] = Inc(@) ]
                         ELSE viewOk
            /\ jwts' = IF r.jwt THEN [ jwts EXCEPT ![token] = Inc(@) ] ELSE jwts
            /\ resp' = Response("secret", token, r.status)
            /\ tracked' = IF r.ok
                          THEN [ c \in DOMAIN tracked \
                                        {viewTokens[token].contract_id} |->
                                    tracked[c] ]
                          ELSE tracked
            /\ intervals' =
                  IF r.ok /\ viewTokens[token].contract_id \in DOMAIN tracked
                  THEN clearInterval(intervals, viewTokens[token].contract_id,
                           tracked[viewTokens[token].contract_id].timerId)
                  ELSE intervals
            /\ detached' =
                  IF r.ok
                  THEN Held(inflight, Detach(detached, tracked,
                                             viewTokens[token].contract_id))
                  ELSE detached
            /\ UNCHANGED <<ticks, sendTokens, nextSend, nextView, ledger,
                           inflight, sendOk, writes, acked, exercised,
                           canton, lastCall>>

GetSecretReq(token, ua) ==
        LET r == SecretHandler(viewTokens, token, ua, Now)
        IN  /\ viewTokens' = r.db
            /\ viewOk' = IF r.ok THEN [ viewOk EXCEPT ![token] = Inc(@) ]
                         ELSE viewOk
            /\ jwts' = IF r.jwt THEN [ jwts EXCEPT ![token] = Inc(@) ] ELSE jwts
            /\ resp' = Response("secret", token, r.status)
            /\ UNCHANGED <<ticks, sendTokens, nextSend, nextView, ledger,
                           tracked, inflight, sendOk, writes, acked,
                           exercised,
                           canton, lastCall, intervals, detached>>

GetSecret == \E token \in ViewPaths, ua \in UserAgents : GetSecretReq(token, ua)

---------------------------------------------------------------------------
(* The ledger, as the handlers see it through services/canton.ts *)

\* queryContracts(party, 'SecretTransfer', { recipient: party }): the active
\* contracts.
queryContracts == { c \in DOMAIN ledger : ledger[c].active }

\* A consuming choice (Acknowledge, RevokeTransfer) exercised on contract c
\* archives it.
Archive(c) == [ ledger EXCEPT ![c].active = FALSE ]

\* An exerciseChoice(party, 'SecretTransfer', contractId, choice, {}) request.
Exercise(choice, contractId) == [ choice |-> choice, cid |-> contractId ]

---------------------------------------------------------------------------
(* commands/inbox.ts: /cc-inbox *)

\* expiresAt && new Date(expiresAt) < now
TransferExpired(c, now) ==
    ledger[c].expiresAt # NULL /\ ledger[c].expiresAt < now

\* The second loop of the handler: one createViewToken per active transfer,
\* in the order `order` of the array.
IssueForAll(db, order, first, now) ==
    [ t \in DOMAIN db \cup (first .. first + Len(order) - 1) |->
        IF t \in DOMAIN db THEN db[t]
        ELSE createViewToken(order[t - first + 1],
                             ledger[order[t - first + 1]].expiresAt, now) ]

\* The orders in which an array can hold the elements of S.
Orders(S) ==
    { o \in [ 1 .. Cardinality(S) -> S ] :
        \A i, j \in 1 .. Cardinality(S) : o[i] = o[j] => i = j }

\* The handler calls queryContracts; the ledger answers with the contracts
\* active at that moment.  (With no transfer the handler only responds.)
InboxQuery ==
    /\ CanSuspend
    /\ queryContracts # {}
    /\ inflight' = Suspend(Handler("inbox", "queried", Malformed, 0, NULL,
                                   queryContracts, {}))
    /\ UNCHANGED <<ticks, sendTokens, viewTokens, nextSend, nextView,
                   ledger, tracked, resp, sendOk, viewOk, writes, jwts, acked,
                   exercised,
                   canton, lastCall, intervals, detached>>

\* The rest of the handler once no expired transfer is left to archive.
InboxIssue(h, active) ==
    /\ nextView + Cardinality(active) - 1 <= MaxView
    /\ \E order \in Orders(active) :
          viewTokens' = IssueForAll(viewTokens, order, nextView, Now)
    /\ nextView' = nextView + Cardinality(active)
    /\ inflight' = Resume(h)
    /\ UNCHANGED <<ledger, exercised,
                   canton, lastCall>>

\* exerciseChoice(..., 'RevokeTransfer') on an expired transfer c reaches the
\* ledger: it archives c, or fails (the handler ignores the failure).
InboxArchive(h, c, active, todo) ==
    /\ \E ok \in BOOLEAN :
          ledger' = IF ok /\ ledger[c].active THEN Archive(c) ELSE ledger
    /\ exercised' = exercised \cup { Exercise("RevokeTransfer", c) }
    /\ inflight' = Resume(h) (+)
            SetToBag({ [ h EXCEPT !.pc = "archiving", !.active = active,
                                  !.todo = todo \ {c} ] })
    /\ UNCHANGED <<viewTokens, nextView,
                   canton, lastCall>>

\* queryContracts returned: the handler splits the transfers into expired and
\* active ones by the clock, and archives the expired ones one by one.
InboxContinue ==
    \E h \in Suspended :
        /\ h.h = "inbox" /\ h.pc = "queried"
        /\ LET expired == { c \in h.active : TransferExpired(c, Now) }
               active == h.active \ expired
           IN  IF expired = {}
               THEN InboxIssue(h, active)
               ELSE \E c \in expired : InboxArchive(h, c, active, expired)
        /\ UNCHANGED <<ticks, sendTokens, nextSend, tracked, resp,
                       sendOk, viewOk, writes, jwts, acked,
                       canton, lastCall, intervals, detached>>

\* An exerciseChoice of the first loop returned.
InboxArchived ==
    \E h \in Suspended :
        /\ h.h = "inbox" /\ h.pc = "archiving"
        /\ IF h.todo = {}
           THEN InboxIssue(h, h.active)
           ELSE \E c \in h.todo : InboxArchive(h, c, h.active, h.todo)
        /\ UNCHANGED <<ticks, sendTokens, nextSend, tracked, resp,
                       sendOk, viewOk, writes, jwts, acked,
                       canton, lastCall, intervals, detached>>

---------------------------------------------------------------------------
(* commands/inbox.ts: the view_secret button *)

\* The handler calls queryContracts and the ledger answers.  (When the
\* contract is not among the answer the handler only posts a message.)
ViewSecretQuery ==
    \E c \in queryContracts :
        /\ CanSuspend
        /\ inflight' = Suspend(Handler("view_secret", "queried", Malformed, c,
                                       ledger[c].expiresAt, {}, {}))
        /\ UNCHANGED <<ticks, sendTokens, viewTokens, nextSend, nextView,
                       ledger, tracked, resp, sendOk, viewOk, writes, jwts,
                       acked, exercised,
                       canton, lastCall, intervals, detached>>

ViewSecretIssue ==
    \E h \in Suspended :
        /\ h.h = "view_secret" /\ h.pc = "queried"
        /\ nextView <= MaxView
        /\ viewTokens' = (nextView :> createViewToken(h.cid, h.exp, Now))
                            @@ viewTokens
        /\ nextView' = nextView + 1
        /\ inflight' = Resume(h)
        /\ UNCHANGED <<ticks, sendTokens, nextSend, ledger, tracked,
                       resp, sendOk, viewOk, writes, jwts, acked, exercised,
                       canton, lastCall, intervals, detached>>

---------------------------------------------------------------------------
(* stores/secret-timers.ts *)

\* untrackSecret: clearInterval and tracked.delete
untrackSecret(map, contractId) ==
    [ c \in DOMAIN map \ {contractId} |-> map[c] ]

\* The comparison of tick() taken strictly.
TickExpired_Strict(entry, now) ==
    entry.expiresAt # NULL /\ entry.expiresAt < now

\* A tick() that never finds the secret expired.
TickExpired_Never(entry, now) == FALSE

\* entry.expiresAt && new Date(entry.expiresAt).getTime() <= now
TickExpired(entry, now) ==
    entry.expiresAt # NULL /\ entry.expiresAt <= now

\* if (entry.timerId && entry.expiresAt) { ... if (remaining <= 5 * 60_000)
RescheduleDue(entry, now) ==
    /\ entry.timerId # NULL
    /\ entry.expiresAt # NULL
    /\ entry.expiresAt - now <= FIVE_MINUTES_MS

\* tick() leaving the interval as it is.
Reschedule_Never(entry, now) == entry

\* tick(), after a refresh: "if (entry.timerId && entry.expiresAt)", the
\* interval is replaced when at most five minutes remain.
Reschedule(entry, now) ==
    IF RescheduleDue(entry, now)
    THEN [ entry EXCEPT !.timerId = refreshInterval(entry.expiresAt, now) ]
    ELSE entry

\* clearAllTimers without tracked.clear(): only the entries with an interval
\* go.
clearAllTimers_TimedOnly(map) ==
    [ c \in { d \in DOMAIN map : map[d].timerId = NULL } |-> map[c] ]

\* clearAllTimers: clearInterval for every entry, then tracked.clear()
clearAllTimers(map) == << >>

\* The interval of a tracked secret fires: tick() up to its await of
\* chat.update.
TimerTick ==
    \E c \in DOMAIN tracked :
        /\ tracked[c].timerId # NULL
        /\ CanSuspend
        /\ IF TickExpired(tracked[c], Now)
           THEN /\ viewTokens' = revokeTokensForContract(viewTokens, c)
                /\ inflight' = Suspend(Handler("tick", "expired", Malformed, c,
                                               NULL, {}, {}))
           ELSE /\ viewTokens' = viewTokens
                /\ inflight' = Suspend(Handler("tick", "refresh", Malformed, c,
                                               NULL, {}, {}))
        /\ UNCHANGED <<ticks, sendTokens, nextSend, nextView, ledger,
                       tracked, resp, sendOk, viewOk, writes, jwts, acked,
                       exercised,
                       canton, lastCall, intervals, detached>>

\* chat.update returned (updated) or threw: after the expired notice, and
\* after a failed refresh, tick() untracks the secret; after a refresh it
\* looks at the interval of `entry`, the object it read from the map before
\* the await.  When the secret was untracked during the await, that object is
\* in the map no more: the interval tick() starts then belongs to no entry of
\* the map, and its ticks return at "if (!entry)".
TickUpdated ==
    \E h \in Suspended, updated \in BOOLEAN :
        /\ h.h = "tick"
        /\ tracked' = IF h.pc = "expired" \/ ~updated
                      THEN untrackSecret(tracked, h.cid)
                      ELSE IF h.cid \in DOMAIN tracked
                      THEN [ tracked EXCEPT ![h.cid] = Reschedule(@, Now) ]
                      ELSE tracked
        /\ inflight' = Resume(h)
        /\ LET entry == IF h.cid \in DOMAIN tracked THEN tracked[h.cid]
                        ELSE detached[h.cid]
           IN  IF h.pc = "expired" \/ ~updated
               THEN /\ intervals' = IF h.cid \in DOMAIN tracked
                                    THEN clearInterval(intervals, h.cid,
                                                       entry.timerId)
                                    ELSE intervals
                    /\ detached' = Held(inflight',
                                        Detach(detached, tracked, h.cid))
               ELSE /\ intervals' =
                          IF RescheduleDue(entry, Now)
                          THEN setInterval(
                                   clearInterval(intervals, h.cid, entry.timerId),
                                   h.cid, Reschedule(entry, Now).timerId)
                          ELSE intervals
                    /\ detached' =
                          Held(inflight',
                               IF h.cid \in DOMAIN tracked THEN detached
                               ELSE [ detached EXCEPT
                                        ![h.cid] = Reschedule(entry, Now) ])
        /\ UNCHANGED <<ticks, sendTokens, viewTokens, nextSend, nextView,
                       ledger, resp, sendOk, viewOk, writes, jwts, acked,
                       exercised,
                       canton, lastCall>>

---------------------------------------------------------------------------
(* commands/inbox.ts: the acknowledge_transfer button *)

\* exerciseChoice(..., 'Acknowledge') reaches the ledger and archives the
\* contract.  (On a contract that is no longer active it throws, and the
\* handler only reports the error.)
Acknowledge ==
    \E c \in queryContracts :
        /\ CanSuspend
        /\ ledger' = Archive(c)
        /\ inflight' = Suspend(Handler("acknowledge", "archived", Malformed, c,
                                       NULL, {}, {}))
        /\ exercised' = exercised \cup { Exercise("Acknowledge", c) }
        /\ UNCHANGED <<ticks, sendTokens, viewTokens, nextSend, nextView,
                       tracked, resp, sendOk, viewOk, writes, jwts, acked,
                       canton, lastCall, intervals, detached>>

\* exerciseChoice returned: the handler revokes the contract's view tokens
\* and, when the secret is tracked, awaits chat.update.
AcknowledgeRevoke ==
    \E h \in Suspended :
        /\ h.h = "acknowledge" /\ h.pc = "archived"
        /\ viewTokens' = revokeTokensForContract(viewTokens, h.cid)
        /\ acked' = acked \cup {h.cid}
        /\ inflight' = IF h.cid \in DOMAIN tracked
                       THEN Resume(h) (+) SetToBag({ [ h EXCEPT !.pc = "update" ] })
                       ELSE Resume(h)
        /\ UNCHANGED <<ticks, sendTokens, nextSend, nextView, ledger,
                       tracked, resp, sendOk, viewOk, writes, jwts,
                       exercised,
                       canton, lastCall, intervals, detached>>

\* chat.update returned (updated) or threw.
AcknowledgeUpdated ==
    \E h \in Suspended, updated \in BOOLEAN :
        /\ h.h = "acknowledge" /\ h.pc = "update"
        /\ tracked' = IF updated THEN untrackSecret(tracked, h.cid) ELSE tracked
        /\ inflight' = Resume(h)
        /\ intervals' = IF updated /\ h.cid \in DOMAIN tracked
                        THEN clearInterval(intervals, h.cid,
                                           tracked[h.cid].timerId)
                        ELSE intervals
        /\ detached' = IF updated
                       THEN Held(inflight', Detach(detached, tracked, h.cid))
                       ELSE detached
        /\ UNCHANGED <<ticks, sendTokens, viewTokens, nextSend, nextView,
                       ledger, resp, sendOk, viewOk, writes, jwts, acked,
                       exercised,
                       canton, lastCall>>

\* A handler that revokes the view tokens before it awaits exerciseChoice.
AcknowledgeFailed_RevokeFirst ==
    \E c \in DOMAIN ledger :
        /\ CanSuspend
        /\ viewTokens' = revokeTokensForContract(viewTokens, c)
        /\ inflight' = Suspend(Handler("acknowledge", "failed", Malformed, c,
                                       NULL, {}, {}))
        /\ exercised' = exercised \cup { Exercise("Acknowledge", c) }
        /\ UNCHANGED <<ticks, sendTokens, nextSend, nextView, ledger,
                       tracked, resp, sendOk, viewOk, writes, jwts, acked,
                       canton, lastCall, intervals, detached>>

\* exerciseChoice(..., 'Acknowledge') throws (the contract is archived
\* already, or the ledger cannot be reached): the handler skips the rest of
\* its try block and awaits respond() with the error text in its catch block.
AcknowledgeFailed ==
    \E c \in DOMAIN ledger :
        /\ CanSuspend
        /\ inflight' = Suspend(Handler("acknowledge", "failed", Malformed, c,
                                       NULL, {}, {}))
        /\ exercised' = exercised \cup { Exercise("Acknowledge", c) }
        /\ UNCHANGED <<ticks, sendTokens, viewTokens, nextSend, nextView,
                       ledger, tracked, resp, sendOk, viewOk, writes, jwts,
                       acked, canton, lastCall, intervals, detached>>

\* respond() (or the chat.postMessage that stands in for it) returned or
\* threw: the handler is over.
AcknowledgeReported ==
    \E h \in Suspended :
        /\ h.h = "acknowledge" /\ h.pc = "failed"
        /\ inflight' = Resume(h)
        /\ UNCHANGED <<ticks, sendTokens, viewTokens, nextSend, nextView,
                       ledger, tracked, resp, sendOk, viewOk, writes, jwts,
                       acked, exercised, canton, lastCall, intervals, detached>>

---------------------------------------------------------------------------
(* index.ts: setInterval(purgeExpiredTokens, 60 * 60 * 1000) *)

Purge ==
    /\ viewTokens' = purgeExpiredTokens(viewTokens, Now)
    /\ UNCHANGED <<ticks, sendTokens, nextSend, nextView, ledger,
                   tracked, inflight, resp, sendOk, viewOk, writes, jwts, acked,
                   exercised,
                   canton, lastCall, intervals, detached>>

---------------------------------------------------------------------------
(* The view-token store with its callers taken one call at a time *)

\* A SecretTransfer contract appears at the ledger: created by POST /api/send,
\* or by any other client of the ledger (the modal flow of commands/send.ts).
LedgerCreate ==
    \E ttl \in TtlInputs :
        /\ Cardinality(DOMAIN ledger) < MaxContracts
        /\ ledger' = (NewContractId :>
                        [ expiresAt |-> ExpiresAtOf(ttl, Now), active |-> TRUE ])
                        @@ ledger
        /\ UNCHANGED <<ticks, sendTokens, viewTokens, nextSend, nextView,
                       tracked, inflight, resp, sendOk, viewOk, writes, jwts,
                       acked, exercised,
                       canton, lastCall, intervals, detached>>

\* One createViewToken(contractId, ..., payload.expiresAt) call, as POST
\* /api/send, /cc-inbox and view_secret make it for a contract they hold.
IssueViewToken ==
    \E c \in DOMAIN ledger :
        /\ nextView <= MaxView
        /\ viewTokens' = (nextView :> createViewToken(c, ledger[c].expiresAt, Now))
                            @@ viewTokens
        /\ nextView' = nextView + 1
        /\ UNCHANGED <<ticks, sendTokens, nextSend, ledger, tracked, inflight,
                       resp, sendOk, viewOk, writes, jwts, acked, exercised,
                       canton, lastCall, intervals, detached>>

\* One revokeTokensForContract(contractId) call, as acknowledge_transfer and
\* tick() make it.
RevokeCall(c) ==
    /\ viewTokens' = revokeTokensForContract(viewTokens, c)
    /\ UNCHANGED <<ticks, sendTokens, nextSend, nextView, ledger, tracked,
                   inflight, resp, sendOk, viewOk, writes, jwts, acked,
                   exercised,
                   canton, lastCall, intervals, detached>>

RevokeTokens == \E c \in DOMAIN ledger : RevokeCall(c)

---------------------------------------------------------------------------
(* stores/secret-timers.ts with its callers taken one call at a time *)

\* The `ttl` of the secrets tracked here.
CadenceTtls == { "none", "300", "7200" }

\* Time passes up to one of the CadenceInstants.
AdvanceToCadence ==
    \E k \in 1 .. Len(CadenceInstants) :
        /\ CadenceInstants[k] > Now
        /\ ticks' = MaxTicks + Len(EdgeInstants) + k
        /\ UNCHANGED <<sendTokens, viewTokens, nextSend, nextView, ledger,
                       tracked, inflight, resp, sendOk, viewOk, writes, jwts,
                       acked, exercised,
                       canton, lastCall, intervals, detached>>

\* A secret is delivered now: its contract is on the ledger and the caller
\* (POST /api/send, the modal flow of commands/send.ts) calls trackSecret
\* with the contract's id and expiresAt.
TrackSecretCall ==
    \E ttl \in CadenceTtls :
        /\ Cardinality(DOMAIN ledger) < MaxContracts
        /\ ledger' = (NewContractId :>
                        [ expiresAt |-> ExpiresAtOf(ttl, Now), active |-> TRUE ])
                        @@ ledger
        /\ tracked' = (NewContractId :> trackSecret(ExpiresAtOf(ttl, Now), Now))
                        @@ tracked
        /\ intervals' =
              IF trackSecret(ExpiresAtOf(ttl, Now), Now).timerId # NULL
              THEN setInterval(intervals, NewContractId,
                               trackSecret(ExpiresAtOf(ttl, Now), Now).timerId)
              ELSE intervals
        /\ detached' = detached
        /\ UNCHANGED <<ticks, sendTokens, viewTokens, nextSend, nextView,
                       inflight, resp, sendOk, viewOk, writes, jwts, acked,
                       exercised,
                       canton, lastCall>>

\* SIGINT / SIGTERM: clearAllTimers(), closeDb(), process.exit(0).  The
\* handlers that were awaiting never resume and no interval outlives the
\* process; the tables and the ledger do, the map of the next process is
\* empty.
Shutdown ==
    /\ tracked' = clearAllTimers(tracked)
    /\ inflight' = EmptyBag
    /\ intervals' = EmptyBag
    /\ detached' = << >>
    /\ UNCHANGED <<ticks, sendTokens, viewTokens, nextSend, nextView, ledger,
                   resp, sendOk, viewOk, writes, jwts, acked, exercised,
                   canton, lastCall>>

NextTimer ==
    \/ AdvanceToCadence
    \/ TrackSecretCall
    \/ TimerTick
    \/ TickUpdated
    \/ Acknowledge
    \/ AcknowledgeRevoke
    \/ AcknowledgeUpdated
    \/ Shutdown

SpecTimer == Init /\ [][NextTimer]_vars

\* The interval of contract c fires and tick() runs up to its await.
TimerTickOf(c) ==
    /\ TimerTick
    /\ \E h \in BagToSet(inflight') :
          /\ h.h = "tick" /\ h.cid = c
          /\ CopiesIn(h, inflight') > CopiesIn(h, inflight)

\* The chat.update a tick() of contract c awaits returns or throws.
TickUpdatedOf(c) ==
    /\ TickUpdated
    /\ \E h \in Suspended :
          /\ h.h = "tick" /\ h.cid = c
          /\ CopiesIn(h, inflight') < CopiesIn(h, inflight)

\* The timers under the scheduling of the event loop: time passes, an interval
\* that is live keeps firing (setInterval), and a request that a handler
\* awaits (chat.update, exerciseChoice) comes back or throws.
SpecTimerLive ==
    /\ Init /\ [][NextTimer]_vars
    /\ WF_vars(AdvanceToCadence)
    /\ \A c \in 1 .. MaxContracts :
          SF_vars(TimerTickOf(c)) /\ WF_vars(TickUpdatedOf(c))
    /\ WF_vars(AcknowledgeRevoke)
    /\ WF_vars(AcknowledgeUpdated)

\* The acknowledge_transfer handler, failing or not, next to the timers and
\* the view tokens of the deliveries.
NextAck ==
    \/ AdvanceClock
    \/ TrackSecretCall
    \/ IssueViewToken
    \/ TimerTick
    \/ TickUpdated
    \/ Acknowledge
    \/ AcknowledgeRevoke
    \/ AcknowledgeUpdated
    \/ AcknowledgeFailed
    \/ AcknowledgeReported

SpecAck == Init /\ [][NextAck]_vars

---------------------------------------------------------------------------
(* services/canton.ts: the ledger adapter, one call at a time *)

\* CANTON_API_VERSION
Generations == { "v1", "v2" }

Templates == { "SecretTransfer", "UserIdentity" }
Parties == { "alice", "bob" }

\* What becomes of a request: the ledger answers 2xx ("ok"), answers another
\* status ("status"), or fetch rejects ("network").
NetOutcomes == { "ok", "status", "network" }

\* The payloads of the contracts on the ledger.
Payloads == [ owner : Parties, recipient : Parties, label : {"db"} ]

\* The `filter` argument of queryContracts: << >> is the absent filter.
NoFilter == << >>
FilterInputs ==
    { NoFilter,
      [ f \in {"recipient"} |-> "alice" ],
      [ f \in {"recipient", "owner"} |-> IF f = "owner" THEN "bob" ELSE "alice" ] }

\* The `key` argument of fetchByKey: [party, label].
KeyInputs == { << x, "db" >> : x \in Parties }

\* The value a promise resolves to, and its rejection.
Ok(v) == [ kind |-> "ok", value |-> v ]
Threw == [ kind |-> "error", value |-> NULL ]

\* A call of an adapter operation: its arguments, the await it is at ("done"
\* when it returned or threw), what became of its request, the ledger offset
\* it read and the one it sent, the ledger's answer and the call's outcome.
Call(op, gen, pc, args, net, reply, outcome) ==
    [ op |-> op, gen |-> gen, pc |-> pc, args |-> args, net |-> net,
      reply |-> reply, outcome |-> outcome ]

\* No call is awaiting the ledger.
Idle == lastCall.pc = "done"

ContractResult(c) == [ contractId |-> c.contractId, payload |-> c.payload ]

\* The contract is active at the offset.
IsActiveAt(c, offset) ==
    c.created <= offset /\ (c.archived = NULL \/ c.archived > offset)

\* Object.entries(filter).every(([k, v]) => contractPayload[k] === v) with a
\* client that keeps every entry.
Matches_Any(payload, filter) == TRUE

\* Object.entries(filter).every(([k, v]) => contractPayload[k] === v)
Matches(payload, filter) ==
    \A k \in DOMAIN filter : k \in DOMAIN payload /\ payload[k] = filter[k]

\* The ledger's answer to /v1/query: it filters on the fields itself.
V1QueryResult(contracts, offset, template, filter) ==
    LET sel == SelectSeq(contracts,
                   LAMBDA c : /\ IsActiveAt(c, offset)
                              /\ c.template = template
                              /\ \A k \in DOMAIN filter :
                                    c.payload[k] = filter[k])
    IN  [ i \in 1 .. Len(sel) |-> ContractResult(sel[i]) ]

\* The ledger's answer to /v2/state/active-contracts with a TemplateFilter and
\* activeAtOffset: one entry per contract of the template active at the offset.
V2ActiveContracts(contracts, offset, template) ==
    LET sel == SelectSeq(contracts,
                   LAMBDA c : IsActiveAt(c, offset) /\ c.template = template)
    IN  [ i \in 1 .. Len(sel) |->
            [ createdEvent |-> [ contractId |-> sel[i].contractId,
                                 createArgument |-> sel[i].payload ] ] ]

\* queryContracts, v2: the loop over the entries with the client-side filter.
RECURSIVE CollectMatching(_, _)
CollectMatching(entries, filter) ==
    IF entries = << >> THEN << >>
    ELSE LET ce == Head(entries).createdEvent
             rest == CollectMatching(Tail(entries), filter)
         IN  IF Matches(ce.createArgument, filter)
             THEN << [ contractId |-> ce.contractId,
                       payload |-> ce.createArgument ] >> \o rest
             ELSE rest

\* fetchByKey, v2: the first contract whose payload carries the key, else null.
RECURSIVE FirstWithKey(_, _)
FirstWithKey(all, key) ==
    IF all = << >> THEN None
    ELSE IF /\ Len(key) = 2
            /\ Head(all).payload.owner = key[1]
            /\ Head(all).payload.label = key[2]
         THEN Some(Head(all))
         ELSE FirstWithKey(Tail(all), key)

\* The ledger's answer to /v1/fetch: the contract of the key, or result null.
V1FetchResult(contracts, offset, template, key) ==
    LET all == V1QueryResult(contracts, offset, template, NoFilter)
    IN  FirstWithKey(all, key)

\* The events of a v2 transaction response.
CreatedEvent(contractId) == [ type |-> "CreatedEvent", contractId |-> contractId ]
ExercisedEvent == [ type |-> "ExercisedEvent", contractId |-> NULL ]

\* transaction.updateId of the transaction that moved the ledger to `offset`.
UpdateIdOf(offset) == 1000 + offset

\* The shapes of data.transaction the ledger may answer a create with: the
\* creation event somewhere among at most MaxEvents other events, or absent;
\* with updateId or without.
V2CreateReplies(contractId, offset) ==
    LET others == UNION { [ 1 .. n -> { ExercisedEvent } ] : n \in 0 .. MaxEvents }
        lists  == others \cup
                  { a \o << CreatedEvent(contractId) >> \o b : a, b \in others }
    IN  [ events : lists, updateId : { NULL, UpdateIdOf(offset) } ]

\* createContract, v2, looking at the first event only.
createContractV2_FirstEvent(data, payload) ==
    IF data.events # << >> /\ Head(data.events).type = "CreatedEvent"
    THEN Ok([ contractId |-> Head(data.events).contractId, payload |-> payload ])
    ELSE IF data.updateId # NULL
    THEN Ok([ contractId |-> data.updateId, payload |-> payload ])
    ELSE Threw

\* createContract, v2: the first CreatedEvent of data.transaction.events, else
\* data.transaction.updateId, else the Error.
createContractV2(data, payload) ==
    LET created == SelectSeq(data.events, LAMBDA e : e.type = "CreatedEvent")
    IN  IF created # << >>
        THEN Ok([ contractId |-> Head(created).contractId, payload |-> payload ])
        ELSE IF data.updateId # NULL
        THEN Ok([ contractId |-> data.updateId, payload |-> payload ])
        ELSE Threw

\* The ledger takes a create: the contract it appends.
Created(template, payload) ==
    [ contracts |-> Append(canton.contracts,
                      [ contractId |-> Len(canton.contracts) + 1,
                        template |-> template, payload |-> payload,
                        created |-> canton.end + 1, archived |-> NULL ]),
      end |-> canton.end + 1 ]

\* The ledger takes a consuming choice on contract i.
Archived(i) ==
    [ contracts |-> [ canton.contracts EXCEPT ![i].archived = canton.end + 1 ],
      end |-> canton.end + 1 ]

\* Another participant (or another handler of the bot) creates a contract
\* while a call is awaiting the ledger.
CantonCreate ==
    \E template \in Templates, payload \in Payloads :
        /\ ~Idle
        /\ Len(canton.contracts) < MaxCanton
        /\ canton' = Created(template, payload)
        /\ UNCHANGED <<ticks, sendTokens, viewTokens, nextSend, nextView,
                       ledger, tracked, inflight, resp, sendOk, viewOk, writes,
                       jwts, acked, exercised, lastCall, intervals, detached>>

\* Another participant archives a contract while a call is awaiting the
\* ledger.
CantonArchive ==
    \E i \in 1 .. Len(canton.contracts) :
        /\ ~Idle
        /\ IsActiveAt(canton.contracts[i], canton.end)
        /\ canton' = Archived(i)
        /\ UNCHANGED <<ticks, sendTokens, viewTokens, nextSend, nextView,
                       ledger, tracked, inflight, resp, sendOk, viewOk, writes,
                       jwts, acked, exercised, lastCall, intervals, detached>>

\* createContract(party, templateName, payload)
CreateContractCall ==
    \E gen \in Generations, net \in NetOutcomes,
       template \in Templates, payload \in Payloads :
        /\ Idle
        /\ Len(canton.contracts) < MaxCanton
        /\ canton' = IF net = "ok" THEN Created(template, payload) ELSE canton
        /\ IF net # "ok"
           THEN lastCall' = Call("createContract", gen, "done", payload, net,
                                 NULL, Threw)
           ELSE IF gen = "v1"
           THEN lastCall' =
                  Call("createContract", gen, "done", payload, net, NULL,
                       Ok([ contractId |-> Len(canton.contracts) + 1,
                            payload |-> payload ]))
           ELSE \E data \in V2CreateReplies(Len(canton.contracts) + 1,
                                            canton.end + 1) :
                  lastCall' = Call("createContract", gen, "done", payload, net,
                                   data, createContractV2(data, payload))
        /\ UNCHANGED <<ticks, sendTokens, viewTokens, nextSend, nextView,
                       ledger, tracked, inflight, resp, sendOk, viewOk, writes,
                       jwts, acked, exercised, intervals, detached>>

\* exerciseChoice(party, templateName, contractId, choice, argument) with a
\* consuming choice: the ledger refuses it (non-2xx) on a contract that is not
\* active.
ExerciseChoiceCall ==
    \E gen \in Generations, net \in NetOutcomes,
       i \in 1 .. Len(canton.contracts) :
        /\ Idle
        /\ net = "ok" => IsActiveAt(canton.contracts[i], canton.end)
        /\ canton' = IF net = "ok" THEN Archived(i) ELSE canton
        /\ lastCall' =
             Call("exerciseChoice", gen, "done", i, net, NULL,
                  IF net # "ok" THEN Threw
                  ELSE IF gen = "v2"
                  THEN Ok([ contractId |-> i, payload |-> << >> ])
                  ELSE Ok(ContractResult(canton.contracts[i])))
        /\ UNCHANGED <<ticks, sendTokens, viewTokens, nextSend, nextView,
                       ledger, tracked, inflight, resp, sendOk, viewOk, writes,
                       jwts, acked, exercised, intervals, detached>>

\* queryContracts(party, templateName, filter), v1: one request.
QueryContractsV1 ==
    \E net \in NetOutcomes, template \in Templates, filter \in FilterInputs :
        /\ Idle
        /\ lastCall' =
             Call("queryContracts", "v1", "done",
                  [ template |-> template, filter |-> filter,
                    key |-> << "alice", "db" >>,
                    offset |-> canton.end, activeAtOffset |-> canton.end ],
                  net, NULL,
                  IF net # "ok" THEN Threw
                  ELSE Ok(V1QueryResult(canton.contracts, canton.end,
                                        template, filter)))
        /\ UNCHANGED <<ticks, sendTokens, viewTokens, nextSend, nextView,
                       ledger, tracked, inflight, resp, sendOk, viewOk, writes,
                       jwts, acked, exercised, canton, intervals, detached>>

\* queryContracts and fetchByKey, v2: v2GetLedgerEnd() answers (or fails).
LedgerEndV2 ==
    \E op \in { "queryContracts", "fetchByKey" }, net \in NetOutcomes,
       template \in Templates, filter \in FilterInputs, key \in KeyInputs :
        /\ Idle
        /\ op = "fetchByKey" => filter = NoFilter
        /\ op = "queryContracts" => key = << "alice", "db" >>
        /\ lastCall' =
             Call(op, "v2", IF net = "ok" THEN "active-contracts" ELSE "done",
                  [ template |-> template, filter |-> filter, key |-> key,
                    offset |-> IF net = "ok" THEN canton.end ELSE NULL,
                    activeAtOffset |-> NULL ],
                  net, NULL, Threw)
        /\ UNCHANGED <<ticks, sendTokens, viewTokens, nextSend, nextView,
                       ledger, tracked, inflight, resp, sendOk, viewOk, writes,
                       jwts, acked, exercised, canton, intervals, detached>>

\* queryContracts and fetchByKey, v2: /v2/state/active-contracts answers (or
\* fails) and the entries are filtered.
ActiveContractsV2 ==
    \E net \in NetOutcomes :
        /\ ~Idle
        /\ lastCall.pc = "active-contracts"
        /\ LET a == lastCall.args
               entries == V2ActiveContracts(canton.contracts, a.offset,
                                            a.template)
               results == CollectMatching(entries, a.filter)
           IN  lastCall' =
                 [ lastCall EXCEPT
                     !.pc = "done", !.net = net,
                     !.args.activeAtOffset = a.offset,
                     !.reply = IF net = "ok" THEN entries ELSE NULL,
                     !.outcome = IF net # "ok" THEN Threw
                                 ELSE IF lastCall.op = "fetchByKey"
                                 THEN Ok(FirstWithKey(results, a.key))
                                 ELSE Ok(results) ]
        /\ UNCHANGED <<ticks, sendTokens, viewTokens, nextSend, nextView,
                       ledger, tracked, inflight, resp, sendOk, viewOk, writes,
                       jwts, acked, exercised, canton, intervals, detached>>

\* fetchByKey(party, templateName, key), v1: one request inside try/catch.
FetchByKeyV1 ==
    \E net \in NetOutcomes, template \in Templates, key \in KeyInputs :
        /\ Idle
        /\ lastCall' =
             Call("fetchByKey", "v1", "done",
                  [ template |-> template, filter |-> NoFilter, key |-> key,
                    offset |-> canton.end, activeAtOffset |-> canton.end ],
                  net, NULL,
                  IF net # "ok" THEN Ok(None)
                  ELSE Ok(V1FetchResult(canton.contracts, canton.end,
                                        template, key)))
        /\ UNCHANGED <<ticks, sendTokens, viewTokens, nextSend, nextView,
                       ledger, tracked, inflight, resp, sendOk, viewOk, writes,
                       jwts, acked, exercised, canton, intervals, detached>>

\* allocateParty(partyHint, displayName) and listParties(): one request each.
PartyCall ==
    \E op \in { "allocateParty", "listParties" }, gen \in Generations,
       net \in NetOutcomes, party \in Parties :
        /\ Idle
        /\ lastCall' =
             Call(op, gen, "done", party, net, NULL,
                  IF net # "ok" THEN Threw
                  ELSE IF op = "allocateParty" THEN Ok(party)
                  ELSE Ok(Parties))
        /\ UNCHANGED <<ticks, sendTokens, viewTokens, nextSend, nextView,
                       ledger, tracked, inflight, resp, sendOk, viewOk, writes,
                       jwts, acked, exercised, canton, intervals, detached>>

NextAdapter ==
    \/ CantonCreate
    \/ CantonArchive
    \/ CreateContractCall
    \/ ExerciseChoiceCall
    \/ QueryContractsV1
    \/ LedgerEndV2
    \/ ActiveContractsV2
    \/ FetchByKeyV1
    \/ PartyCall

SpecAdapter == Init /\ [][NextAdapter]_vars

---------------------------------------------------------------------------

Next ==
    \/ AdvanceClock
    \/ CcSend
    \/ GetCompose
    \/ PostSend
    \/ PostSendCreated
    \/ PostSendFailed
    \/ PostSendIssue
    \/ PostSendNotified
    \/ GetSecret
    \/ InboxQuery
    \/ InboxContinue
    \/ InboxArchived
    \/ ViewSecretQuery
    \/ ViewSecretIssue
    \/ TimerTick
    \/ TickUpdated
    \/ Acknowledge
    \/ AcknowledgeRevoke
    \/ AcknowledgeUpdated
    \/ Purge

Spec == Init /\ [][Next]_vars

\* The send-token flow alone.
NextSend ==
    \/ AdvanceClock
    \/ CcSend
    \/ GetCompose
    \/ PostSend
    \/ PostSendCreated
    \/ PostSendFailed
    \/ PostSendIssue
    \/ PostSendNotified

SpecSend == Init /\ [][NextSend]_vars

\* The send-token flow with the clock also stopping around the expiry.
NextTtl ==
    \/ AdvanceToEdge
    \/ NextSend

SpecTtl == Init /\ [][NextTtl]_vars

\* INSERT OR REPLACE in the place of INSERT.
InsertRow_Replace(db, token, row) ==
    [ ok |-> TRUE, db |-> [ t \in DOMAIN db \cup {token} |->
                              IF t = token THEN row ELSE db[t] ] ]

\* INSERT INTO a table whose `token` column is the PRIMARY KEY (stores/db.ts):
\* the statement throws on a token the table holds and changes nothing.
InsertRow(db, token, row) ==
    IF token \in DOMAIN db
    THEN [ ok |-> FALSE, db |-> db ]
    ELSE [ ok |-> TRUE, db |-> (token :> row) @@ db ]

\* /cc-send: createSendToken whose crypto.randomBytes(32) yields the token of
\* an existing row.
CcSendCollision ==
    \E token \in DOMAIN sendTokens :
        LET r == InsertRow(sendTokens, token, createSendToken(Now))
        IN  /\ sendTokens' = r.db
            /\ resp' = Response("createSendToken", token,
                                IF r.ok THEN 200 ELSE 500)
            /\ UNCHANGED <<ticks, viewTokens, nextSend, nextView, ledger,
                           tracked, inflight, sendOk, viewOk, writes, jwts,
                           acked, exercised, canton, lastCall, intervals, detached>>

\* One createViewToken call whose crypto.randomBytes(32) yields the token of
\* an existing row.
IssueViewCollision ==
    \E token \in DOMAIN viewTokens, c \in DOMAIN ledger :
        LET r == InsertRow(viewTokens, token,
                           createViewToken(c, ledger[c].expiresAt, Now))
        IN  /\ viewTokens' = r.db
            /\ resp' = Response("createViewToken", token,
                                IF r.ok THEN 200 ELSE 500)
            /\ UNCHANGED <<ticks, sendTokens, nextSend, nextView, ledger,
                           tracked, inflight, sendOk, viewOk, writes, jwts,
                           acked, exercised, canton, lastCall, intervals, detached>>

\* The two token stores with every issue, the colliding ones included.
NextIssue ==
    \/ NextSend
    \/ GetSecret
    \/ RevokeTokens
    \/ CcSendCollision
    \/ IssueViewCollision

SpecIssue == Init /\ [][NextIssue]_vars

\* POST /api/send/:token with a body that has no ciphertext.
PostSendNoBody == \E token \in SendPaths : PostSendReq(token, FALSE, "none")

\* The two token stores under any sequence of calls of their functions.
NextStores ==
    \/ AdvanceClock
    \/ CcSend
    \/ PostSendNoBody
    \/ LedgerCreate
    \/ IssueViewToken
    \/ GetSecret
    \/ RevokeTokens

SpecStores == Init /\ [][NextStores]_vars

\* The view-token store alone, under any sequence of calls.
NextView ==
    \/ AdvanceClock
    \/ LedgerCreate
    \/ IssueViewToken
    \/ GetSecret
    \/ RevokeTokens
    \/ Purge

SpecView == Init /\ [][NextView]_vars

---------------------------------------------------------------------------
(* src/web/server.ts: GET /secret/:token of the first web viewer *)

\* The handler up to its await of queryContracts: the response it sends
\* (status 0: none yet), the table it leaves and whether consumeViewToken
\* returned the record.
LegacySecretSync(db, token, ua, now) ==
    IF ~TOKEN_REGEX_test(token)
    THEN [ status |-> 400, db |-> db, ok |-> FALSE ]
    ELSE IF IsSlackbot(ua)
    THEN [ status |-> 200, db |-> db, ok |-> FALSE ]
    ELSE LET c == consumeViewToken(db, token, now)
         IN  IF c.ret = None
             THEN [ status |-> 410, db |-> c.db, ok |-> FALSE ]
             ELSE [ status |-> 0, db |-> c.db, ok |-> TRUE ]

LegacyGetSecretReq(token, ua) ==
        LET r == LegacySecretSync(viewTokens, token, ua, Now)
        IN  /\ r.ok => CanSuspend
            /\ viewTokens' = r.db
            /\ viewOk' = IF r.ok THEN [ viewOk EXCEPT ![token] = Inc(@) ]
                         ELSE viewOk
            /\ inflight' = IF r.ok
                           THEN Suspend(Handler("legacy", "queryContracts", token,
                                                viewTokens[token].contract_id,
                                                NULL, {}, {}))
                           ELSE inflight
            /\ resp' = IF r.ok THEN resp ELSE Response("legacy", token, r.status)
            /\ UNCHANGED <<ticks, sendTokens, nextSend, nextView, ledger,
                           tracked, sendOk, writes, jwts, acked, exercised,
                           canton, lastCall, intervals, detached>>

LegacyGetSecret ==
    \E token \in ViewPaths, ua \in UserAgents : LegacyGetSecretReq(token, ua)

\* transfers.find((t) => t.contractId === record.contract_id): found answers
\* 200 with the secret page, not found answers 404.
LegacyFind(transfers, contractId) ==
    IF contractId \in transfers THEN 200 ELSE 404

\* queryContracts returned the contracts active at the ledger.
LegacyAnswered ==
    \E h \in Suspended :
        /\ h.h = "legacy" /\ h.pc = "queryContracts"
        /\ inflight' = Resume(h)
        /\ resp' = Response("legacy", h.tok, LegacyFind(queryContracts, h.cid))
        /\ UNCHANGED <<ticks, sendTokens, viewTokens, nextSend, nextView,
                       ledger, tracked, sendOk, viewOk, writes, jwts, acked,
                       exercised,
                       canton, lastCall, intervals, detached>>

\* queryContracts threw: the handler's catch answers 500.
LegacyQueryFailed ==
    \E h \in Suspended :
        /\ h.h = "legacy" /\ h.pc = "queryContracts"
        /\ inflight' = Resume(h)
        /\ resp' = Response("legacy", h.tok, 500)
        /\ UNCHANGED <<ticks, sendTokens, viewTokens, nextSend, nextView,
                       ledger, tracked, sendOk, viewOk, writes, jwts, acked,
                       exercised,
                       canton, lastCall, intervals, detached>>

\* The first web viewer, with the view-token store's callers and the
\* acknowledge_transfer button (no secret is tracked: only POST /api/send
\* calls trackSecret).
NextLegacy ==
    \/ AdvanceClock
    \/ LedgerCreate
    \/ IssueViewToken
    \/ LegacyGetSecret
    \/ LegacyAnswered
    \/ LegacyQueryFailed
    \/ Acknowledge
    \/ AcknowledgeRevoke

SpecLegacy == Init /\ [][NextLegacy]_vars


---------------------------------------------------------------------------
(* Properties *)

\* The tokens issued so far.
IssuedView == 1 .. nextView - 1

\* A token "valid" at time now: known, neither consumed nor revoked, and not
\* past its expiry.
SendUsable(db, t, now) ==
    /\ t \in DOMAIN db
    /\ db[t].consumed_at = NULL
    /\ db[t].expires_at >= now

ViewUsable(db, t, now) ==
    /\ t \in DOMAIN db
    /\ db[t].consumed_at = NULL
    /\ db[t].revoked = 0
    /\ (db[t].expires_at = NULL \/ db[t].expires_at >= now)

\* A view token that was consumed or revoked (its row may have been purged
\* since; only such rows and expired ones are purged).
ViewDead(db, t) ==
    t \notin DOMAIN db \/ db[t].consumed_at # NULL \/ db[t].revoked = 1

\* C1: whatever the interleaving of consumption attempts on one token, a
\* send token and a view token are each consumed successfully at most once,
\* and an attempt on a valid token does return the record, so exactly one of
\* the attempts on a valid token succeeds.
C1_ExactlyOneConsumption ==
    [][ /\ \A t \in 1 .. MaxSend : sendOk'[t] <= 1
        /\ \A t \in 1 .. MaxView : viewOk'[t] <= 1
        /\ \A t \in 1 .. MaxSend :
              ( /\ SendUsable(sendTokens, t, Now)
                /\ \E hasCiphertext \in BOOLEAN, ttl \in TtlInputs :
                      PostSendReq(t, hasCiphertext, ttl) )
              => sendOk'[t] = sendOk[t] + 1
        /\ \A t \in 1 .. MaxView :
              ( /\ ViewUsable(viewTokens, t, Now)
                /\ \E ua \in { BrowserUA, NoUA } : GetSecretReq(t, ua) )
              => viewOk'[t] = viewOk[t] + 1
      ]_vars

\* A send token was consumed, and a second GET /secret on a consumed view
\* token (not revoked, not expired) was answered 410.
C1_Witness ==
    /\ \E s \in DOMAIN sendTokens : sendOk[s] = 1
    /\ \E t \in DOMAIN viewTokens :
          /\ viewOk[t] = 1
          /\ viewTokens[t].consumed_at # NULL
          /\ viewTokens[t].revoked = 0
          /\ ~ViewTokenExpired(viewTokens[t], Now)
          /\ resp = Response("secret", t, 410)

\* C2: once a send token is consumed, or a view token is consumed or
\* revoked, no step of the system (issue, peek, consume, revoke, purge)
\* makes a peek or a consume of it return the record again, and its
\* consumed_at never changes.
C2_UnusabilityPermanent ==
    [][ /\ \A t \in DOMAIN sendTokens :
              sendTokens[t].consumed_at # NULL =>
                 /\ t \in DOMAIN sendTokens'
                 /\ sendTokens'[t].consumed_at = sendTokens[t].consumed_at
                 /\ sendOk'[t] = sendOk[t]
                 /\ getSendTokenInfo(sendTokens', t, Now') = None
                 /\ GetComposeReq(t) => resp'.status = 410
        /\ \A t \in IssuedView :
              ViewDead(viewTokens, t) =>
                 /\ ViewDead(viewTokens', t)
                 /\ viewOk'[t] = viewOk[t]
                 /\ consumeViewToken(viewTokens', t, Now').ret = None
                 /\ (t \in DOMAIN viewTokens /\ t \in DOMAIN viewTokens') =>
                       viewTokens'[t].consumed_at = viewTokens[t].consumed_at
      ]_vars

\* A view token was consumed, its row was purged a day later, and the token
\* was presented again and answered 410.
C2_Witness ==
    \E t \in IssuedView :
        /\ t \notin DOMAIN viewTokens
        /\ viewOk[t] = 1
        /\ resp = Response("secret", t, 410)

\* C3: in every interleaving of revokeTokensForContract(d) with
\* consumeViewToken on a token of d, a token whose revocation is recorded is
\* never consumed afterwards and its consumed_at stays null, a revocation
\* that comes after the consumption leaves the row as it is (consumed_at set,
\* revoked = 0), and no row is ever both consumed and revoked.
C3_RevokeConsumeOrder ==
    [][ \A t \in DOMAIN viewTokens :
          /\ viewTokens[t].revoked = 1 =>
                /\ viewOk'[t] = viewOk[t]
                /\ t \in DOMAIN viewTokens' =>
                      viewTokens'[t].consumed_at = NULL
          /\ ( /\ viewTokens[t].consumed_at # NULL
               /\ \E c \in DOMAIN ledger : RevokeCall(c) )
             => /\ t \in DOMAIN viewTokens'
                /\ viewTokens'[t] = viewTokens[t]
          /\ t \in DOMAIN viewTokens' =>
                ~( /\ viewTokens'[t].revoked = 1
                   /\ viewTokens'[t].consumed_at # NULL )
      ]_vars

\* Two tokens of one delivery: one consumed before the revocation (still
\* consumed, not revoked), the other revoked and then refused with 410.
C3_Witness ==
    \E t1, t2 \in DOMAIN viewTokens :
        /\ viewTokens[t1].contract_id = viewTokens[t2].contract_id
        /\ viewTokens[t1].consumed_at # NULL
        /\ viewTokens[t1].revoked = 0
        /\ viewTokens[t2].revoked = 1
        /\ viewTokens[t2].created_at <= viewTokens[t1].consumed_at
        /\ resp = Response("secret", t2, 410)

\* C4: one revokeTokensForContract(d) call is one step after which no view
\* token of delivery d that existed before the call can be consumed, at
\* any time and however many there are; the tokens of other deliveries, and
\* the set of rows, are as before.
C4_RevokeAllAtOnce ==
    [][ \A c \in DOMAIN ledger :
          RevokeCall(c) =>
             /\ DOMAIN viewTokens' = DOMAIN viewTokens
             /\ \A t \in DOMAIN viewTokens :
                   IF viewTokens[t].contract_id = c
                   THEN \A i \in 0 .. MaxTicks :
                           consumeViewToken(viewTokens', t, ClockAt(i)).ret = None
                   ELSE viewTokens'[t] = viewTokens[t]
      ]_vars

\* Two tokens of one delivery, issued at the same time, are both revoked.
C4_Witness ==
    \E t1, t2 \in DOMAIN viewTokens :
        /\ t1 # t2
        /\ viewTokens[t1].contract_id = viewTokens[t2].contract_id
        /\ viewTokens[t1].revoked = 1
        /\ viewTokens[t2].revoked = 1
        /\ viewTokens[t1].created_at = viewTokens[t2].created_at

\* C5: a view token carries its payload's expiresAt, and at any time
\* strictly after it consumeViewToken returns none and no GET /secret
\* consumes the token, whether or not the token was revoked or purged.
C5_ExpirySelfEnforcing ==
    [][ \A t \in DOMAIN viewTokens :
          /\ viewTokens[t].expires_at = ledger[viewTokens[t].contract_id].expiresAt
          /\ ( /\ viewTokens[t].expires_at # NULL
               /\ Now > viewTokens[t].expires_at )
             => /\ consumeViewToken(viewTokens, t, Now).ret = None
                /\ viewOk'[t] = viewOk[t]
      ]_vars

\* A token past its expiry, never revoked, never consumed and not purged,
\* was presented and answered 410.
C5_Witness ==
    \E t \in DOMAIN viewTokens :
        /\ viewTokens[t].expires_at # NULL
        /\ Now > viewTokens[t].expires_at
        /\ viewTokens[t].revoked = 0
        /\ viewTokens[t].consumed_at = NULL
        /\ viewOk[t] = 0
        /\ resp = Response("secret", t, 410)

\* C6: once acknowledge_transfer has archived a delivery and revoked its
\* tokens, no GET /secret consumes a view token of that delivery.
C6_NoConsumeAfterAcknowledged ==
    [][ \A t \in DOMAIN viewTokens :
          viewTokens[t].contract_id \in acked => viewOk'[t] = viewOk[t]
      ]_vars

\* C7: for each send token createContract is invoked at most once, only
\* with the token's consumption recorded, and the token is consumed for as
\* long as a POST /api/send that carries it awaits the ledger.
C7_OneLedgerWrite ==
    /\ \A t \in 1 .. MaxSend :
          /\ writes[t] <= 1
          /\ writes[t] >= 1 =>
                /\ t \in DOMAIN sendTokens
                /\ sendTokens[t].consumed_at # NULL
                /\ sendOk[t] = 1
    /\ \A h \in Suspended :
          h.h = "send" =>
             /\ h.tok \in DOMAIN sendTokens
             /\ sendTokens[h.tok].consumed_at # NULL

\* While one POST /api/send awaits createContract, a second request with the
\* same token was answered 410.
C7_Witness ==
    \E h \in Suspended :
        /\ h.h = "send" /\ h.pc = "createContract"
        /\ writes[h.tok] = 1
        /\ resp = Response("send", h.tok, 410)

\* C8: a viewer JWT is minted only in a GET /secret step that consumes an
\* issued, unconsumed, unrevoked and unexpired view token (and answers 302),
\* so that at most one is minted per view token.
C8_CredentialAfterConsumption ==
    [][ \A t \in 1 .. MaxView :
          /\ jwts'[t] <= 1
          /\ jwts'[t] <= viewOk'[t]
          /\ jwts'[t] # jwts[t] =>
                /\ t \in IssuedView
                /\ ViewUsable(viewTokens, t, Now)
                /\ viewOk'[t] = viewOk[t] + 1
                /\ viewTokens'[t].consumed_at = Now
                /\ resp' = Response("secret", t, 302)
      ]_vars

\* A credential was minted for a token and the request answered 302.
C8_Witness ==
    \E t \in IssuedView :
        /\ jwts[t] = 1
        /\ viewOk[t] = 1
        /\ resp = Response("secret", t, 302)

\* C9: a GET /secret whose User-Agent contains 'Slackbot' changes neither
\* the view-token table nor what was consumed or minted, for both web
\* viewers, and a token that was valid before it is still consumable after.
C9_PreviewLeavesStore ==
    [][ \A token \in ViewPaths :
          /\ GetSecretReq(token, SlackbotUA) =>
                /\ viewTokens' = viewTokens
                /\ viewOk' = viewOk
                /\ jwts' = jwts
                /\ ViewUsable(viewTokens, token, Now) =>
                      /\ resp'.status = 200
                      /\ consumeViewToken(viewTokens', token, Now').ret # None
          /\ LegacySecretSync(viewTokens, token, SlackbotUA, Now).db = viewTokens
          /\ ~LegacySecretSync(viewTokens, token, SlackbotUA, Now).ok
      ]_vars

\* The preview agent was answered 200 for a token that is still valid.
C9_Witness ==
    \E t \in DOMAIN viewTokens :
        /\ ViewUsable(viewTokens, t, Now)
        /\ resp = Response("secret", t, 200)

\* C10: GET /secret/:token never answers 404.
C10_Never404 == resp.h \in { "secret", "legacy" } => resp.status # 404

\* What the client sees of a response: the status and the page rendered.
Observable(r) == << r.status, r.page >>

\* C11: for a well-formed token that consumption (or the peek) rejects, GET
\* /secret and GET /compose answer exactly as they answer for a token that
\* never existed, whichever of consumed, expired, revoked or unknown applies.
C11_UniformRejection ==
    /\ \A t \in ViewPaths \ { Malformed }, ua \in { BrowserUA, NoUA } :
          consumeViewToken(viewTokens, t, Now).ret = None =>
             Observable(SecretHandler(viewTokens, t, ua, Now))
                = Observable(SecretHandler(<< >>, t, ua, Now))
    /\ \A t \in SendPaths \ { Malformed } :
          getSendTokenInfo(sendTokens, t, Now) = None =>
             Observable(ComposeHandler(sendTokens, t, Now))
                = Observable(ComposeHandler(<< >>, t, Now))

\* A view token is consumed or revoked, the send token is consumed, and a
\* GET /secret with a token that was never issued was answered 410.
C11_Witness ==
    /\ \E s \in DOMAIN sendTokens : sendTokens[s].consumed_at # NULL
    /\ \E t1 \in DOMAIN viewTokens :
          viewTokens[t1].consumed_at # NULL \/ viewTokens[t1].revoked = 1
    /\ \E t2 \in 1 .. MaxView :
          /\ t2 \notin IssuedView
          /\ resp = Response("secret", t2, 410)

\* C12: in every store state and at every clock value getSendTokenInfo
\* returns the record exactly when consumeSendToken would (and the same
\* record), GET /compose shows the compose page exactly when a consumption
\* at that moment would succeed, and the peek changes no row.
C12_PeekAgreesWithConsume ==
    [][ /\ \A t \in SendPaths, i \in 0 .. MaxTicks :
              getSendTokenInfo(sendTokens, t, ClockAt(i))
                 = consumeSendToken(sendTokens, t, ClockAt(i)).ret
        /\ \A t \in SendPaths :
              GetComposeReq(t) =>
                 /\ sendTokens' = sendTokens
                 /\ resp'.status = 200
                       <=> consumeSendToken(sendTokens, t, Now).ret # None
      ]_vars

\* A send token that was never consumed is past its expiry, and the peek of
\* GET /compose rejected it.
C12_Witness ==
    \E t \in DOMAIN sendTokens :
        /\ sendTokens[t].consumed_at = NULL
        /\ SendTokenExpired(sendTokens[t], Now)
        /\ resp = Response("compose", t, 410)

\* revokeTokensForContract(contractId) called n times in a row.
RECURSIVE RevokeTimes(_, _, _)
RevokeTimes(db, contractId, n) ==
    IF n = 0 THEN db
    ELSE revokeTokensForContract(RevokeTimes(db, contractId, n - 1), contractId)

\* C13: in every store state and for every delivery, N >= 1 calls of
\* revokeTokensForContract in a row leave the table that one call leaves
\* (and with it the same result for every later peek or consume).
C13_RevokeIdempotent ==
    \A c \in 1 .. MaxContracts, n \in 1 .. MaxRevokes :
        RevokeTimes(viewTokens, c, n) = revokeTokensForContract(viewTokens, c)

\* A delivery has a revoked token and a token issued since that a further
\* call revokes.
C13_Witness ==
    \E t1, t2 \in DOMAIN viewTokens :
        /\ viewTokens[t1].contract_id = viewTokens[t2].contract_id
        /\ viewTokens[t1].revoked = 1
        /\ viewTokens[t2].revoked = 0
        /\ viewTokens[t2].consumed_at = NULL
        /\ t1 < t2

\* C14: a send token expires 10 minutes after it was issued.  A POST
\* /api/send that presents it unconsumed up to 9:59 after issuance consumes
\* it; one that presents it consumed is refused (410) and leaves the row
\* consumed; one that presents it unconsumed from 10:01 after issuance is
\* refused (410) and leaves the row unconsumed.
C14_TenMinuteTtl ==
    [][ \A t \in DOMAIN sendTokens :
          /\ sendTokens[t].expires_at
                = sendTokens[t].created_at + 10 * 60 * 1000
          /\ \A hasCiphertext \in BOOLEAN, ttl \in TtlInputs :
                PostSendReq(t, hasCiphertext, ttl) =>
                   LET age == Now - sendTokens[t].created_at
                       fresh == sendTokens[t].consumed_at = NULL
                   IN  /\ (fresh /\ age <= (9 * 60 + 59) * 1000) =>
                              /\ sendOk'[t] = sendOk[t] + 1
                              /\ sendTokens'[t].consumed_at = Now
                       /\ ~fresh =>
                              /\ sendOk'[t] = sendOk[t]
                              /\ sendTokens' = sendTokens
                              /\ resp' = Response("send", t, 410)
                       /\ (fresh /\ age >= (10 * 60 + 1) * 1000) =>
                              /\ sendOk'[t] = sendOk[t]
                              /\ sendTokens' = sendTokens
                              /\ resp' = Response("send", t, 410)
      ]_vars

\* A send token was consumed 9:59 after it was issued, and a second POST at
\* the same instant was refused.
C14_Witness ==
    \E t \in DOMAIN sendTokens :
        /\ sendTokens[t].consumed_at
              = sendTokens[t].created_at + (9 * 60 + 59) * 1000
        /\ Now = sendTokens[t].consumed_at
        /\ sendOk[t] = 1
        /\ resp = Response("send", t, 410)

\* The step in which handler h stops awaiting createContract with no contract
\* created: the ledger write failed.
LedgerWriteFailed(h) ==
    /\ h.h = "send" /\ h.pc = "createContract"
    /\ CopiesIn(h, inflight') < CopiesIn(h, inflight)
    /\ ledger' = ledger

\* C15: when createContract fails, POST /api/send answers with an error
\* (500) and ends: the send token stays consumed, so that a retry with it is
\* answered 410, no view token is issued, nothing is tracked, and nothing
\* of the request remains in flight that could do so later.
C15_LedgerFailureIsTerminal ==
    [][ \A h \in Suspended :
          LedgerWriteFailed(h) =>
             /\ resp' = Response("send", h.tok, 500)
             /\ h.tok \in DOMAIN sendTokens'
             /\ sendTokens'[h.tok].consumed_at # NULL
             /\ \A hasCiphertext \in BOOLEAN, ttl \in TtlInputs :
                   PostSendSync(sendTokens', h.tok, hasCiphertext, ttl,
                                Now').status = 410
             /\ viewTokens' = viewTokens
             /\ tracked' = tracked
             /\ \A g \in BagToSet(inflight') : g.tok # h.tok
      ]_vars

\* The ledger write of a request failed (createContract was invoked, no
\* contract exists, nothing is in flight, no view token, nothing tracked) and
\* the retry with the same token was answered 410.
C15_Witness ==
    \E t \in DOMAIN sendTokens :
        /\ writes[t] = 1
        /\ ledger = << >>
        /\ viewTokens = << >>
        /\ tracked = << >>
        /\ inflight = EmptyBag
        /\ resp = Response("send", t, 410)

\* The step in which handler h stops awaiting chat.postMessage: POST
\* /api/send responds.
SendResponded(h) ==
    /\ h.h = "send" /\ h.pc = "postMessage"
    /\ CopiesIn(h, inflight') < CopiesIn(h, inflight)

\* The view tokens of table db that reference contract c.
TokensOf(db, c) == { v \in DOMAIN db : db[v].contract_id = c }

\* C16: whenever POST /api/send responds with success, the send token is
\* consumed, one contract was created for it, one view token references that
\* contract, and the delivery is in the tracking map.
C16_SuccessMeansAll ==
    [][ \A h \in Suspended :
          (SendResponded(h) /\ resp' = Response("send", h.tok, 200)) =>
             /\ sendTokens'[h.tok].consumed_at # NULL
             /\ writes'[h.tok] = 1
             /\ h.cid \in DOMAIN ledger'
             /\ Cardinality(TokensOf(viewTokens', h.cid)) = 1
             /\ h.cid \in DOMAIN tracked'
      ]_vars

\* C17: when chat.postMessage fails (the delivery is not tracked when the
\* handler responds), POST /api/send still answers success, and the step
\* changes neither the ledger nor a token: the contract is active, its view
\* token is neither revoked nor consumed, the send token is consumed.
C17_NotificationFailureKeepsSend ==
    [][ \A h \in Suspended :
          (SendResponded(h) /\ h.cid \notin DOMAIN tracked') =>
             /\ resp' = Response("send", h.tok, 200)
             /\ ledger' = ledger
             /\ h.cid \in DOMAIN ledger /\ ledger[h.cid].active
             /\ viewTokens' = viewTokens
             /\ \E v \in TokensOf(viewTokens, h.cid) :
                   /\ viewTokens[v].revoked = 0
                   /\ viewTokens[v].consumed_at = NULL
             /\ sendTokens' = sendTokens
             /\ sendTokens[h.tok].consumed_at # NULL
      ]_vars

\* POST /api/send answered success with nothing tracked: the contract is
\* active and its view token is neither revoked nor consumed.
C17_Witness ==
    \E t \in DOMAIN sendTokens, v \in DOMAIN viewTokens :
        /\ resp = Response("send", t, 200)
        /\ tracked = << >>
        /\ inflight = EmptyBag
        /\ ledger[viewTokens[v].contract_id].active
        /\ viewTokens[v].revoked = 0
        /\ viewTokens[v].consumed_at = NULL

\* The step in which the interval of contract c fires and tick() runs up to
\* its await of chat.update with the rendering `render`.
TickFired(c, render) ==
    LET h == Handler("tick", render, Malformed, c, NULL, {}, {})
    IN  CopiesIn(h, inflight') > CopiesIn(h, inflight)

\* The step in which suspended handler h stops awaiting and returns.
Returned(h) == CopiesIn(h, inflight') < CopiesIn(h, inflight)

\* C18: once the Acknowledge choice has archived the contract, the handler
\* untracks the delivery (and cancels its timer) whether its chat.update
\* succeeds or fails.
C18_AcknowledgeUntracks ==
    [][ \A h \in Suspended :
          (h.h = "acknowledge" /\ h.pc = "update" /\ Returned(h)) =>
             h.cid \notin DOMAIN tracked'
      ]_vars

\* C19: a tick that finds the clock at or past expiresAt revokes every
\* unconsumed view token of the delivery before it attempts the 'expired'
\* rendering, and when that chat.update returns or throws the delivery is
\* untracked, its timer with it.
C19_TerminalTick ==
    [][ /\ \A c \in DOMAIN tracked :
             ( /\ tracked[c].expiresAt # NULL
               /\ tracked[c].expiresAt <= Now
               /\ \E render \in {"expired", "refresh"} : TickFired(c, render) )
             => /\ TickFired(c, "expired")
                /\ \A v \in TokensOf(viewTokens', c) : ViewDead(viewTokens', v)
        /\ \A h \in Suspended :
             (h.h = "tick" /\ h.pc = "expired" /\ Returned(h)) =>
                h.cid \notin DOMAIN tracked'
      ]_vars

\* A terminal tick awaits its 'expired' rendering: the delivery's view token
\* was revoked while the contract is active and was never acknowledged.
C19_Witness ==
    \E h \in Suspended :
        /\ h.h = "tick" /\ h.pc = "expired"
        /\ h.cid \in DOMAIN tracked
        /\ ledger[h.cid].active
        /\ h.cid \notin acked
        /\ \E v \in TokensOf(viewTokens, h.cid) : viewTokens[v].revoked = 1

\* C20: by the time a terminal tick has finished, an archival of its
\* contract has been requested from the ledger.
C20_TerminalTickArchives ==
    [][ \A h \in Suspended :
          (h.h = "tick" /\ h.pc = "expired" /\ Returned(h)) =>
             \E e \in exercised' : e.cid = h.cid
      ]_vars

\* The step in which a tick of handler h returns from a successful refresh of
\* a secret that is still tracked.
Refreshed(h) ==
    /\ h.h = "tick" /\ h.pc = "refresh"
    /\ Returned(h)
    /\ h.cid \in DOMAIN tracked'
    /\ tracked'[h.cid].expiresAt # NULL

\* C21: after every refresh of a tracked delivery with a TTL, the interval
\* scheduled for the following refreshes is the cadence of the remaining
\* time (30 minutes, 5 minutes, 60 seconds, 30 seconds as the 24-hour,
\* 1-hour and 5-minute thresholds are crossed).
C21_CadenceFollowsRemaining ==
    [][ \A h \in Suspended :
          Refreshed(h) =>
             tracked'[h.cid].timerId =
                refreshInterval(tracked'[h.cid].expiresAt, Now)
      ]_vars

\* C22: a refresh of a tracked delivery that has at most 4 minutes (and more
\* than nothing) remaining schedules the following refreshes every 30
\* seconds, whatever the interval it was registered with.
C22_ThirtySecondsNearExpiry ==
    [][ \A h \in Suspended :
          ( /\ Refreshed(h)
            /\ tracked'[h.cid].expiresAt - Now > 0
            /\ tracked'[h.cid].expiresAt - Now <= 4 * 60000 ) =>
             tracked'[h.cid].timerId = EVERY_30S
      ]_vars

\* A secret tracked at instant 0 with a TTL of two hours (registered on the
\* 5-minute cadence) is on the 30-second cadence with 4 minutes remaining.
C22_Witness ==
    \E c \in DOMAIN tracked :
        /\ tracked[c].expiresAt = 7200 * 1000
        /\ tracked[c].expiresAt - Now = 4 * 60000
        /\ tracked[c].timerId = EVERY_30S

C23_NoTtlRenderOnly ==
    [][ \A c \in DOMAIN tracked :
          tracked[c].expiresAt = NULL =>
             /\ tracked[c].timerId = NULL
             /\ ~ \E render \in {"expired", "refresh"} : TickFired(c, render)
             /\ c \notin DOMAIN tracked' =>
                   \/ Shutdown
                   \/ \E h \in Suspended :
                         h.h = "acknowledge" /\ h.cid = c /\ Returned(h)
      ]_vars

\* A delivery without TTL is still tracked, without timer, at the last
\* instant of the clock, after another delivery has left the map.
C23_Witness ==
    \E c \in DOMAIN tracked, d \in DOMAIN ledger :
        /\ tracked[c].expiresAt = NULL
        /\ tracked[c].timerId = NULL
        /\ Now = CadenceInstants[Len(CadenceInstants)]
        /\ d \notin DOMAIN tracked

\* C25: a step of GET /secret that consumes a view token changes neither the
\* tracking map (entry and timer) nor the ledger, and sends the ledger no
\* request.
C25_ResolveKeepsTracking ==
    [][ (\E v \in DOMAIN viewTokens :
            /\ viewTokens[v].consumed_at = NULL
            /\ v \in DOMAIN viewTokens'
            /\ viewTokens'[v].consumed_at # NULL) =>
          /\ tracked' = tracked
          /\ ledger' = ledger
          /\ exercised' = exercised
      ]_vars

\* A view token is consumed while its delivery is tracked with a timer and
\* its contract is active.
C25_Witness ==
    \E v \in DOMAIN viewTokens :
        /\ viewTokens[v].consumed_at # NULL
        /\ viewTokens[v].contract_id \in DOMAIN tracked
        /\ tracked[viewTokens[v].contract_id].timerId # NULL
        /\ ledger[viewTokens[v].contract_id].active

ExpiredByEngine(c) ==
    /\ ledger[c].expiresAt # NULL /\ ledger[c].expiresAt <= Now
    /\ c \notin DOMAIN tracked
    /\ TokensOf(viewTokens, c) # {}
    /\ \A v \in TokensOf(viewTokens, c) : viewTokens[v].revoked = 1
    /\ inflight = EmptyBag
    /\ Exercise("Acknowledge", c) \notin exercised

\* C24: the delivery state never moves backward and a terminal state is never
\* left; in particular a delivery in the terminal state Expired does not
\* become Acknowledged: no Acknowledge choice is exercised on its contract.
C24_ExpiredIsTerminal ==
    [][ \A c \in DOMAIN ledger :
          ExpiredByEngine(c) => Exercise("Acknowledge", c) \notin exercised'
      ]_vars

\* C27: every adapter operation, on both generations, surfaces a request that
\* failed (the ledger answered non-2xx, or the network failed) as an error;
\* fetchByKey answers null only when the ledger answered and no active
\* contract of the template carries the key.
C27_FailuresSurface ==
    (lastCall.op # "none" /\ lastCall.pc = "done") =>
       /\ lastCall.net # "ok" => lastCall.outcome.kind = "error"
       /\ ( /\ lastCall.op = "fetchByKey"
            /\ lastCall.outcome.kind = "ok"
            /\ lastCall.outcome.value = None ) =>
              /\ lastCall.net = "ok"
              /\ V1FetchResult(canton.contracts, lastCall.args.offset,
                               lastCall.args.template, lastCall.args.key) = None

\* C28: on generation v2, queryContracts returns exactly what the ledger's
\* own filtering of generation v1 yields for the ledger as it was at the
\* offset: the contracts of the template active there whose payload equals
\* the filter on every field of the filter; the offset sent with the
\* active-contracts request is the one read from the ledger end before it.
C28_QueryV2MatchesV1 ==
    ( /\ lastCall.op = "queryContracts" /\ lastCall.gen = "v2"
      /\ lastCall.pc = "done" /\ lastCall.net = "ok" ) =>
       /\ lastCall.outcome.kind = "ok"
       /\ lastCall.outcome.value =
             V1QueryResult(canton.contracts, lastCall.args.offset,
                           lastCall.args.template, lastCall.args.filter)
       /\ lastCall.args.activeAtOffset = lastCall.args.offset
       /\ lastCall.args.offset <= canton.end

\* A v2 query with the filter {recipient: "alice"} answered with one contract
\* out of two active contracts of the template.
C28_Witness ==
    /\ lastCall.op = "queryContracts" /\ lastCall.gen = "v2"
    /\ lastCall.pc = "done" /\ lastCall.net = "ok"
    /\ DOMAIN lastCall.args.filter = {"recipient"}
    /\ lastCall.args.filter["recipient"] = "alice"
    /\ Len(lastCall.reply) = 2
    /\ Len(lastCall.outcome.value) = 1

\* C30: on generation v2, createContract returns the contract id of a
\* creation event of the response wherever the event is in the list, the
\* updateId when the list has no creation event, and throws exactly when the
\* response has neither.
C30_CreatedEventAnywhere ==
    ( /\ lastCall.op = "createContract" /\ lastCall.gen = "v2"
      /\ lastCall.net = "ok" ) =>
       LET d == lastCall.reply
           created == { i \in DOMAIN d.events : d.events[i].type = "CreatedEvent" }
       IN  /\ created # {} =>
                /\ lastCall.outcome.kind = "ok"
                /\ \E i \in created :
                      lastCall.outcome.value.contractId = d.events[i].contractId
           /\ (created = {} /\ d.updateId # NULL) =>
                /\ lastCall.outcome.kind = "ok"
                /\ lastCall.outcome.value.contractId = d.updateId
           /\ lastCall.outcome.kind = "error" <=>
                (created = {} /\ d.updateId = NULL)

\* A v2 create answered with the creation event after another event: the
\* contract id returned is the one of the creation event.
C30_Witness ==
    /\ lastCall.op = "createContract" /\ lastCall.gen = "v2"
    /\ lastCall.net = "ok"
    /\ Len(lastCall.reply.events) > 1
    /\ lastCall.reply.events[1].type # "CreatedEvent"
    /\ \E i \in 2 .. Len(lastCall.reply.events) :
          /\ lastCall.reply.events[i].type = "CreatedEvent"
          /\ lastCall.outcome.kind = "ok"
          /\ lastCall.outcome.value.contractId =
                lastCall.reply.events[i].contractId

\* C31: an issue whose random value is the token of an existing row (send or
\* view) fails and leaves both tables as they were; no step resets the
\* consumed_at of a row or its revoked flag.
C31_CollisionFails ==
    [][ /\ (CcSendCollision \/ IssueViewCollision) =>
              /\ resp'.status = 500
              /\ sendTokens' = sendTokens
              /\ viewTokens' = viewTokens
        /\ \A t \in DOMAIN sendTokens :
              sendTokens[t].consumed_at # NULL => sendTokens'[t] = sendTokens[t]
        /\ \A v \in DOMAIN viewTokens :
              (viewTokens[v].consumed_at # NULL \/ viewTokens[v].revoked = 1) =>
                  viewTokens'[v] = viewTokens[v]
      ]_vars

\* An issue collided with a consumed send token, which is still consumed, while
\* a revoked view token exists.
C31_Witness ==
    /\ resp.h = "createSendToken" /\ resp.status = 500
    /\ sendTokens[resp.tok].consumed_at # NULL
    /\ \E v \in DOMAIN viewTokens : viewTokens[v].revoked = 1

\* C32: the sweep deletes no view-token row that consumeViewToken would accept
\* at that moment: every row a Purge step removes is consumed, revoked or
\* expired, and a consumption of any token returns the same record on the swept
\* table as on the table before the sweep.
C32_PurgeKeepsUsable ==
    [][ Purge =>
          /\ \A t \in DOMAIN viewTokens \ DOMAIN viewTokens' :
                \/ viewTokens[t].consumed_at # NULL
                \/ viewTokens[t].revoked = 1
                \/ /\ viewTokens[t].expires_at # NULL
                   /\ viewTokens[t].expires_at < Now
          /\ \A t \in 1..MaxView :
                consumeViewToken(viewTokens', t, Now).ret =
                    consumeViewToken(viewTokens, t, Now).ret
      ]_vars

\* A sweep removed a row while a token older than the retention period is still
\* in the table and still accepted.
C32_Witness ==
    /\ \E t \in 1..(nextView - 1) : t \notin DOMAIN viewTokens
    /\ \E u \in DOMAIN viewTokens :
          /\ viewTokens[u].created_at < Now - RETENTION_MS
          /\ consumeViewToken(viewTokens, u, Now).ret # None

\* C36: POST /api/send consumes the token before it reads the body: a request
\* with a valid token and no ciphertext is answered 400 with the token consumed
\* and nothing else done (no contract, no view token, no tracking, no ledger
\* call), and a request on a consumed token is answered 410 and changes
\* nothing.
C36_ConsumedBeforeValidation ==
    [][ \A token \in 1..MaxSend, ttl \in TtlInputs :
          /\ ( /\ PostSendReq(token, FALSE, ttl)
               /\ token \in DOMAIN sendTokens
               /\ sendTokens[token].consumed_at = NULL
               /\ sendTokens[token].expires_at >= Now ) =>
                  /\ resp' = Response("send", token, 400)
                  /\ sendTokens'[token].consumed_at = Now
                  /\ UNCHANGED <<ledger, viewTokens, tracked, inflight, writes>>
          /\ \A hasCiphertext \in BOOLEAN :
               ( /\ PostSendReq(token, hasCiphertext, ttl)
                 /\ token \in DOMAIN sendTokens
                 /\ sendTokens[token].consumed_at # NULL ) =>
                    /\ resp' = Response("send", token, 410)
                    /\ UNCHANGED <<sendTokens, ledger, viewTokens, tracked,
                                   inflight, writes>>
      ]_vars

\* The retry after a request without ciphertext: the token is consumed, no
\* createContract was ever invoked for it, and the last answer is 410.
C36_Witness ==
    \E token \in DOMAIN sendTokens :
        /\ resp = Response("send", token, 410)
        /\ sendTokens[token].consumed_at # NULL
        /\ sendOk[token] = 1
        /\ writes[token] = 0
        /\ DOMAIN ledger = {} /\ DOMAIN viewTokens = {} /\ DOMAIN tracked = {}

\* C37: under any interleaving of issue, consume, revoke and purge, no
\* view-token row is both consumed and revoked.
C37_ConsumedXorRevoked ==
    \A v \in DOMAIN viewTokens :
        ~(viewTokens[v].consumed_at # NULL /\ viewTokens[v].revoked = 1)

\* A contract with one consumed row and one revoked row: the revocation ran
\* over a table that held a consumed row of the same contract.
C37_Witness ==
    \E u, v \in DOMAIN viewTokens :
        /\ viewTokens[u].contract_id = viewTokens[v].contract_id
        /\ viewTokens[u].consumed_at # NULL
        /\ viewTokens[v].revoked = 1
        /\ viewTokens[u].created_at <= viewTokens[v].created_at

\* C38: a consumption that returns no record leaves every row of its table as
\* it was, and one that returns a record changes only the consumed_at of the
\* row it names (send tokens and view tokens alike); revokeTokensForContract(d)
\* changes no row of another delivery, and in a row of d it changes only the
\* revoked flag.
C38_FrameOfStoreCalls ==
    /\ \A t \in SendPaths :
          LET r == consumeSendToken(sendTokens, t, Now)
          IN  /\ r.ret = None => r.db = sendTokens
              /\ r.ret # None =>
                    /\ DOMAIN r.db = DOMAIN sendTokens
                    /\ r.db = [ sendTokens EXCEPT ![t].consumed_at =
                                                      r.db[t].consumed_at ]
    /\ \A v \in ViewPaths :
          LET r == consumeViewToken(viewTokens, v, Now)
          IN  /\ r.ret = None => r.db = viewTokens
              /\ r.ret # None =>
                    /\ DOMAIN r.db = DOMAIN viewTokens
                    /\ r.db = [ viewTokens EXCEPT ![v].consumed_at =
                                                      r.db[v].consumed_at ]
    /\ \A d \in 1..MaxContracts :
          LET db == revokeTokensForContract(viewTokens, d)
          IN  /\ DOMAIN db = DOMAIN viewTokens
              /\ \A v \in DOMAIN viewTokens :
                    IF viewTokens[v].contract_id = d
                    THEN db[v] = [ viewTokens[v] EXCEPT !.revoked = db[v].revoked ]
                    ELSE db[v] = viewTokens[v]

\* Two deliveries each with a view token: the one of the first was revoked, the
\* one of the second is still unconsumed and unrevoked; a send token was
\* consumed.
C38_Witness ==
    /\ \E t \in DOMAIN sendTokens : sendTokens[t].consumed_at # NULL
    /\ \E u, v \in DOMAIN viewTokens :
          /\ viewTokens[u].contract_id # viewTokens[v].contract_id
          /\ viewTokens[u].revoked = 1
          /\ viewTokens[v].revoked = 0 /\ viewTokens[v].consumed_at = NULL

\* C34: once the acknowledge handler has called chat.update with the
\* 'acknowledged' rendering of a delivery, no tick of that delivery calls
\* chat.update with a countdown or 'expired' rendering, the time during which
\* the handler awaits its update included.
C34_NoTickAfterAcknowledged ==
    [][ \A c \in 1..MaxContracts, render \in {"refresh", "expired"} :
          TickFired(c, render) =>
             \A h \in Suspended :
                 ~(h.h = "acknowledge" /\ h.pc = "update" /\ h.cid = c)
      ]_vars

\* C35: an acknowledgement whose Acknowledge exercise fails changes no local
\* state: from the failure to the end of the handler no view token is revoked,
\* the tracking map and its timers stay as they were, and nothing records the
\* attempt; the handler revokes view tokens only for a contract that its
\* exercise has archived.
C35_FailedAcknowledgeIsInert ==
    [][ /\ \A c \in DOMAIN ledger :
             LET h == Handler("acknowledge", "failed", Malformed, c, NULL, {}, {})
             IN  CopiesIn(h, inflight') # CopiesIn(h, inflight) =>
                    UNCHANGED <<viewTokens, tracked, acked, ledger>>
        /\ \A h \in Suspended :
             (h.h = "acknowledge" /\ Returned(h) /\ viewTokens' # viewTokens) =>
                 /\ h.pc = "archived"
                 /\ ~ledger[h.cid].active
                 /\ Exercise("Acknowledge", h.cid) \in exercised
      ]_vars

\* An acknowledgement of an active delivery has failed and awaits its error
\* report: the delivery is still tracked with its timer, and it has a view
\* token that is neither consumed nor revoked.
C35_Witness ==
    \E h \in Suspended :
        /\ h.h = "acknowledge" /\ h.pc = "failed"
        /\ ledger[h.cid].active
        /\ h.cid \in DOMAIN tracked /\ tracked[h.cid].timerId # NULL
        /\ h.cid \notin acked
        /\ \E v \in DOMAIN viewTokens :
              /\ viewTokens[v].contract_id = h.cid
              /\ viewTokens[v].consumed_at = NULL
              /\ viewTokens[v].revoked = 0

\* C33: in every state each live interval is the timerId of exactly one entry
\* of the tracking map, and each timerId of the map is a live interval: at
\* most one live interval per delivery, none for an untracked delivery.
C33_TimerRegistry ==
    /\ \A i \in BagToSet(intervals) :
          /\ CopiesIn(i, intervals) = 1
          /\ i.cid \in DOMAIN tracked
          /\ tracked[i.cid].timerId = i.period
    /\ \A c \in DOMAIN tracked :
          tracked[c].timerId # NULL =>
              CopiesIn(Interval(c, tracked[c].timerId), intervals) = 1

\* C39: a delivery tracked with an expiresAt that the clock reaches is
\* eventually removed from the tracking map, given that time advances, its
\* interval keeps firing and awaited requests come back.
C39_TtlDeliveryEventuallyUntracked ==
    \A c \in 1 .. MaxContracts :
        ( /\ c \in DOMAIN tracked
          /\ tracked[c].expiresAt # NULL
          /\ tracked[c].expiresAt <= CadenceInstants[Len(CadenceInstants)] )
        ~> (c \notin DOMAIN tracked)

\* A delivery with a TTL that nobody acknowledged is tracked no more once its
\* expiresAt has passed.
C39_Witness ==
    \E c \in DOMAIN ledger :
        /\ ledger[c].expiresAt # NULL
        /\ ledger[c].expiresAt <= Now
        /\ ledger[c].active
        /\ \A e \in exercised : e.cid # c
        /\ c \notin DOMAIN tracked
        /\ DOMAIN tracked # {}

===========================================================================
